---- MODULE Spec2Model ----
(***************************************************************************)
(* WebReview API: the invitation-to-account lifecycle.                     *)
(*                                                                         *)
(* The persistence store (users, projects, invitations), the wall clock,   *)
(* the bearer tokens that clients hold and the HTTP requests in flight.    *)
(* Every handler is a process over a request slot: one action per await    *)
(* on the store, so that concurrent requests interleave exactly at the     *)
(* points where the JavaScript handlers yield.                             *)
(*                                                                         *)
(* Time is counted in weeks.  uuidv4() ids are modelled by fresh naturals,  *)
(* generateInviteToken() by the fresh natural of the invitation.  A token  *)
(* payload keeps the claims the handlers read: userId, role,               *)
(* organizationId, and the expiry.                                         *)
(***************************************************************************)
EXTENDS Integers, Sequences, FiniteSets, TLC

\* ---------------------------------------------------------------- bounds
MaxTime == 2
MaxInvitations == 2
MaxUsers == 3
MaxProjects == 1
MaxTokens == 2
MaxReqs == 2
MaxFeedback == 2

\* ------------------------------------------------------ program constants
InviteTtl == 1
JWT_EXPIRES_IN == 1
MinPasswordLength == 8

DefaultOrg == "stevensit"
DefaultSecret == "development-secret-change-me"
Undefined == "undefined"

Reqs == 1..MaxReqs

\* ------------------------------------------------- the values of inputs
AdminEmail == "admin@example.com"

\* String.prototype.toLowerCase on the email inputs
ToLowerCase(e) == IF e = "ANN@x.com" THEN "ann@x.com" ELSE e

\* /^[^\s@]+@[^\s@]+\.[^\s@]+$/ on the email inputs
EmailRegexTest(e) == e \in {"ann@x.com", "ANN@x.com", "bob@x.com", AdminEmail}

\* password.length
PasswordLength(p) == IF p = "short" THEN 5 ELSE IF p = "longenough" THEN 10 ELSE 9

\* bcrypt: the hash determines the password it verifies
HashPassword(p) == <<"bcrypt", p>>
BcryptCompare(p, h) == h = <<"bcrypt", p>>

\* ------------------------------------------------------------- records
NullUser ==
    [id |-> -1, email |-> "", name |-> "", passwordHash |-> <<"bcrypt", "">>,
     role |-> "", organizationId |-> Undefined, assignedProjects |-> <<>>,
     isActive |-> Undefined, status |-> Undefined]

NullInvitation ==
    [id |-> -1, email |-> "", token |-> -1, role |-> "", projectIds |-> <<>>,
     organizationId |-> Undefined, expiresAt |-> -1,
     createdAt |-> -1, acceptedAt |-> -1, isUsed |-> FALSE]

NullProject ==
    [id |-> -1, name |-> "", url |-> <<>>, status |-> "", organizationId |-> Undefined,
     createdBy |-> -1, assignedClients |-> <<>>, assignedDevelopers |-> <<>>]

\* a PATCH /projects body, or the updates taken from it, with no field set
NoChanges == [name |-> Undefined, status |-> Undefined, assignedClients |-> Undefined]

NullFeedback ==
    [id |-> -1, projectId |-> -1, type |-> "", status |-> "", authorId |-> -1,
     authorRole |-> ""]

\* a POST feedback body with no field set
NoFeedbackBody == [type |-> Undefined, priority |-> Undefined, text |-> ""]

\* no bearer token, or one that jwt.verify rejects
NoToken ==
    [userId |-> -1, role |-> "", organizationId |-> Undefined, exp |-> -1,
     key |-> ""]

\* a bearer value that is no JSON web token
Malformed == [NoToken EXCEPT !.key = "not-a-jwt"]

\* the payload of tok signed with a key that is not the service's
Forged(tok) == [tok EXCEPT !.key = "guessed"]

\* the document the deployment guide tells the operator to create by hand
SeedAdmin ==
    [id |-> 0, email |-> AdminEmail, name |-> "Admin User",
     passwordHash |-> HashPassword("adminpass"), role |-> "admin",
     organizationId |-> Undefined, assignedProjects |-> <<>>,
     isActive |-> Undefined, status |-> "active"]

\* a request slot: the handler that runs in it, its position, its locals, and
\* what is known of the request (late: the call came after its token had been
\* redeemed; stale: the call came after its invitation had expired; retry: the
\* response before it was to the same endpoint for the same invite token, a
\* 200 of validate-invite or a refusal of a malformed register body;
\* createdUser, marked, backfilled: the effects it has applied; before: the
\* status of the project when the handler read it; bearer: the value of the
\* Authorization header; caller: the payload verified from it; target: the id
\* in the route of a PATCH /users or PATCH /feedback)
NullReq ==
    [kind |-> "none", pc |-> "idle", bearer |-> NoToken, caller |-> NoToken,
     token |-> -1, name |-> "", password |-> "",
     email |-> "", role |-> Undefined, projectIds |-> <<>>,
     inv |-> NullInvitation, latest |-> NullInvitation, user |-> NullUser,
     idx |-> 0, clients |-> <<>>, proj |-> NullProject,
     updates |-> [name |-> Undefined, role |-> Undefined, isActive |-> Undefined],
     merged |-> NullUser,
     projectId |-> -1, body |-> NoChanges, changes |-> NoChanges, url |-> <<>>,
     feedbackId |-> -1, fb |-> NullFeedback, target |-> -1,
     type |-> Undefined, before |-> "",
     late |-> FALSE, stale |-> FALSE, retry |-> FALSE, wellFormed |-> FALSE,
     createdUser |-> FALSE, marked |-> FALSE, backfilled |-> FALSE]

\* the response of a handler, with what the request did (subject: the user a
\* login matched or the caller of an authenticated request; correct: the
\* password of a login matches the stored hash; granted: the token in the
\* body; project: the project of the route; items: the ids of the documents in
\* the body; details: what the body says of a caught error beside the generic
\* message; secretParts: what the body says of the signing secret)
NullResponse ==
    [kind |-> "none", status |-> 0, error |-> "", emailSent |-> FALSE,
     delivered |-> FALSE, token |-> -1, email |-> "", role |-> "",
     subject |-> -1, correct |-> FALSE, granted |-> NoToken,
     project |-> -1, items |-> {}, bearer |-> NoToken, userFields |-> {},
     url |-> <<>>, target |-> -1, details |-> {}, secretParts |-> {},
     late |-> FALSE, stale |-> FALSE, retry |-> FALSE, wellFormed |-> FALSE,
     createdUser |-> FALSE, marked |-> FALSE, backfilled |-> FALSE]

VARIABLES
    users,          \* the users container
    invitations,    \* the invitations container
    projects,       \* the projects container
    tokens,         \* signed tokens that clients hold
    now,            \* the wall clock, in weeks
    req,            \* the request slots: position and locals of each handler
    projectSeq,     \* how many project ids uuidv4() has handed out
    last,           \* the response sent most recently
    redeemed,       \* invite tokens for which a register call has returned 201
    feedback,       \* the feedback container
    envSecret       \* process.env.JWT_SECRET of the deployment

vars == <<users, invitations, projects, tokens, now, req, projectSeq,
          last, redeemed, feedback, envSecret>>

\* ------------------------------------------------- shared/auth.js helpers
SeqToSet(s) == {s[i] : i \in 1..Len(s)}

\* jwt.verify inside verifyToken: the payload, or null once the token expired
\* `process.env.JWT_SECRET || 'development-secret-change-me'`
JWT_SECRET == IF envSecret = Undefined THEN DefaultSecret ELSE envSecret

\* verification that accepts any signature
VerifyTokenAnyKey(tok, t) == IF tok # NoToken /\ t < tok.exp THEN tok ELSE NoToken

\* jwt.verify inside verifyToken: the payload, or null when the signature
\* does not match or the token has expired
VerifyToken(tok, t) ==
    IF tok # NoToken /\ tok.key = JWT_SECRET /\ t < tok.exp THEN tok ELSE NoToken

AuthenticateRequest(tok, t) == VerifyToken(tok, t)

\* the role check passed by every authenticated caller
HasRoleAnyone(user, requiredRoles) == user # NoToken

HasRole(user, requiredRoles) ==
    /\ user # NoToken
    /\ user.role # ""
    /\ (user.role = "admin" \/ user.role \in requiredRoles)

\* generateToken: the payload signed for a stored user, valid for 7 days
GenerateToken(user, t) ==
    [userId |-> user.id, role |-> user.role,
     organizationId |-> user.organizationId, exp |-> t + JWT_EXPIRES_IN,
     key |-> JWT_SECRET]

\* String.prototype.trim on the secrets of the model
Trim(s) == IF s = " s3cret " THEN "s3cret" ELSE s

\* the token built inline by the login handler: no organizationId claim,
\* signed with the trimmed secret
LoginToken(user, t) ==
    [userId |-> user.id, role |-> user.role,
     organizationId |-> Undefined, exp |-> t + JWT_EXPIRES_IN,
     key |-> Trim(JWT_SECRET)]

\* a client keeps the token it was sent while it has room for it
Hold(tok) == IF Cardinality(tokens) < MaxTokens THEN tokens \cup {tok} ELSE tokens

\* `x || 'stevensit'` and the default parameter organizationId = 'stevensit'
OrgOrDefault(org) == IF org = Undefined THEN DefaultOrg ELSE org

\* ------------------------------------------------ shared/database.js
\* createUser: the stored document (email lowercased, isActive true, no status)
NewUserDoc(id, email, name, passwordHash, role, organizationId, assignedProjects) ==
    [id |-> id, email |-> ToLowerCase(email), name |-> name,
     passwordHash |-> passwordHash,
     role |-> IF role = Undefined THEN "client" ELSE role,
     organizationId |-> OrgOrDefault(organizationId),
     assignedProjects |-> assignedProjects,
     isActive |-> "true", status |-> Undefined]

\* a sanitizer that returns the stored document
SanitizeUserKeepsHash(user) == user

\* sanitizeUser, and `const { passwordHash, ...safeUser } = user` of the
\* handlers: the document without its passwordHash
SanitizeUser(user) == [f \in DOMAIN user \ {"passwordHash"} |-> user[f]]

\* the fields of the user objects a response body holds
FieldsSent(found) == UNION {DOMAIN SanitizeUser(u) : u \in found}

\* getUserByEmail: the documents its query matches (resources[0] is one of them)
GetUserByEmail(email) == {u \in users : u.email = ToLowerCase(email)}

\* getUserById
GetUserById(id) == {u \in users : u.id = id}

\* createProject: the stored document
NewProjectDoc(id, organizationId, createdBy, assignedClients, url) ==
    [id |-> id, name |-> "site", url |-> url, status |-> "pending",
     organizationId |-> OrgOrDefault(organizationId), createdBy |-> createdBy,
     assignedClients |-> assignedClients, assignedDevelopers |-> <<createdBy>>]

\* getProjectById: item(id, organizationId).read(), null on 404
GetProjectById(id, organizationId) ==
    {p \in projects : p.id = id /\ p.organizationId = OrgOrDefault(organizationId)}

\* createInvitation: the stored document
NewInvitationDoc(id, email, role, projectIds, organizationId, expiresAt, t) ==
    [id |-> id, email |-> ToLowerCase(email), token |-> id,
     role |-> IF role = Undefined THEN "client" ELSE role,
     projectIds |-> projectIds,
     organizationId |-> OrgOrDefault(organizationId),
     expiresAt |-> expiresAt, createdAt |-> t, acceptedAt |-> -1,
     isUsed |-> FALSE]

\* the lookup without its isUsed filter
GetInvitationByTokenAnyState(token) ==
    {i \in invitations : i.token = token}

\* getInvitationByToken: WHERE c.token = @token AND c.isUsed = false
GetInvitationByToken(token) ==
    {i \in invitations : i.token = token /\ ~i.isUsed}

\* getInvitationByEmail: WHERE c.email = @email ORDER BY c.createdAt DESC,
\* resources[0] is a document of that email with the greatest createdAt
GetInvitationByEmail(email) ==
    LET match == {i \in invitations : i.email = ToLowerCase(email)}
    IN  {i \in match : \A j \in match : j.createdAt <= i.createdAt}

\* container.item(id, pk).replace(body) on the invitations container: the
\* stores it can leave behind, or {} when it throws.  The item must exist; a
\* body that carries the id of another item of the partition either conflicts
\* or overwrites the addressed item.
ReplaceInvitation(id, body) ==
    LET old == {i \in invitations : i.id = id}
    IN  IF old = {} THEN {}
        ELSE IF body.id = id THEN {(invitations \ old) \cup {body}}
        ELSE {(invitations \ old) \cup {[body EXCEPT !.id = id]}}

\* the same call may also be refused with 409 Conflict
ReplaceInvitationMayThrow(id, body) ==
    \/ {i \in invitations : i.id = id} = {}
    \/ body.id # id

\* container.item(id, email).replace(body) on the users container, as for the
\* invitations container
ReplaceUser(id, body) ==
    LET old == {u \in users : u.id = id}
    IN  IF old = {} THEN {}
        ELSE IF body.id = id THEN {(users \ old) \cup {body}}
        ELSE {(users \ old) \cup {[body EXCEPT !.id = id]}}

ReplaceUserMayThrow(id, body) ==
    \/ {u \in users : u.id = id} = {}
    \/ body.id # id

\* a replace that keeps the assignedClients it finds stored
ReplaceProjectKeepingClients(id, organizationId, body) ==
    LET old == GetProjectById(id, organizationId)
    IN  IF old = {} THEN {}
        ELSE {(projects \ old) \cup {[body EXCEPT !.assignedClients = o.assignedClients]}
                : o \in old}

\* container.item(id, organizationId).replace(body) on the projects container
ReplaceProject(id, organizationId, body) ==
    LET old == GetProjectById(id, organizationId)
    IN  IF old = {} THEN {} ELSE {(projects \ old) \cup {body}}

\* ------------------------------------------------------ request slots
Free(r) == req[r].pc = "idle"

\* createResponse(statusCode, body) for the request q
CreateResponse(q, statusCode, message) ==
    [kind |-> q.kind, status |-> statusCode, error |-> message,
     emailSent |-> FALSE, delivered |-> FALSE,
     token |-> q.token, email |-> "", role |-> "",
     subject |-> q.caller.userId, correct |-> FALSE, granted |-> NoToken,
     project |-> q.projectId, items |-> {}, bearer |-> q.bearer, userFields |-> {},
     url |-> q.url, target |-> q.target, details |-> {}, secretParts |-> {},
     late |-> q.late, stale |-> q.stale, retry |-> q.retry,
     wellFormed |-> q.wellFormed,
     createdUser |-> q.createdUser, marked |-> q.marked,
     backfilled |-> q.backfilled]

\* errorResponse(statusCode, message)
ErrorResponse(q, statusCode, message) == CreateResponse(q, statusCode, message)

\* successResponse(data, statusCode)
SuccessResponse(q, statusCode) == CreateResponse(q, statusCode, "")

\* the handler in slot r returns resp
Return(r, resp) ==
    /\ last' = resp
    /\ req' = [req EXCEPT ![r] = NullReq]

\* the handler in slot r goes on from q
Continue(r, q) ==
    /\ last' = last
    /\ req' = [req EXCEPT ![r] = q]

\* ---------------------------------------------------------- the clients
\* logout() of the front end: the client forgets its token
Logout(tok) ==
    /\ tok \in tokens
    /\ tokens' = tokens \ {tok}
    /\ UNCHANGED <<users, invitations, projects, now, req, projectSeq,
                   last, redeemed, feedback, envSecret>>

\* ------------------------------------------------------------ the clock
\* a week passes; a client throws away a token that has expired
Tick ==
    /\ now < MaxTime
    /\ now' = now + 1
    /\ tokens' = {tok \in tokens : now + 1 < tok.exp}
    /\ UNCHANGED <<users, invitations, projects, req, projectSeq, last, redeemed,
                   feedback, envSecret>>

\* --------------------------------------------------- POST /auth/login
\* getUserByEmail, the status check, bcrypt.compare, the token signed inline
Login(r, email, password) ==
    /\ Free(r)
    /\ LET q == [NullReq EXCEPT !.kind = "login"]
           found == GetUserByEmail(email)
       IN  IF found = {}
           THEN /\ Return(r, ErrorResponse(q, 401, "Invalid email or password"))
                /\ tokens' = tokens
           ELSE \E user \in found :
                LET known == [subject |-> user.id,
                              correct |-> BcryptCompare(password, user.passwordHash)]
                IN  IF user.status # "active"
                    THEN /\ Return(r, known @@ ErrorResponse(q, 403, "Account is disabled"))
                         /\ tokens' = tokens
                    ELSE IF ~BcryptCompare(password, user.passwordHash)
                    THEN /\ Return(r, known @@ ErrorResponse(q, 401, "Invalid email or password"))
                         /\ tokens' = tokens
                    ELSE /\ Return(r, [granted |-> LoginToken(user, now),
                                        userFields |-> FieldsSent({user}),
                                        secretParts |-> {"prefix", "length"}]
                                         @@ known @@ SuccessResponse(q, 200))
                         /\ tokens' = Hold(LoginToken(user, now))
    /\ UNCHANGED <<users, invitations, projects, now, projectSeq, redeemed, feedback,
                   envSecret>>

\* initDatabase or getUserByEmail throws: the catch block of login answers
\* with error.message and error.stack beside the generic message
LoginThrows(r, email, password) ==
    /\ Free(r)
    /\ Return(r, [details |-> {"message", "stack"}]
                    @@ ErrorResponse([NullReq EXCEPT !.kind = "login"], 500,
                                     "Internal server error"))
    /\ UNCHANGED <<users, invitations, projects, tokens, now, projectSeq, redeemed,
                   feedback, envSecret>>

\* -------------------------------------------------- POST /auth/refresh
\* authenticateRequest, getUserById, `!user || !user.isActive`, generateToken
RefreshToken(r, caller) ==
    /\ Free(r)
    /\ LET q == [NullReq EXCEPT !.kind = "refresh", !.bearer = caller]
           userPayload == AuthenticateRequest(caller, now)
           found == GetUserById(userPayload.userId)
           known == [subject |-> userPayload.userId]
       IN  IF userPayload = NoToken
           THEN /\ Return(r, ErrorResponse(q, 401, "Authentication required"))
                /\ tokens' = tokens
           ELSE IF found = {}
           THEN /\ Return(r, known @@ ErrorResponse(q, 401, "Invalid user"))
                /\ tokens' = tokens
           ELSE \E user \in found :
                  IF user.isActive # "true"
                  THEN /\ Return(r, known @@ ErrorResponse(q, 401, "Invalid user"))
                       /\ tokens' = tokens
                  ELSE /\ Return(r, [granted |-> GenerateToken(user, now),
                                      userFields |-> FieldsSent({user})]
                                       @@ known @@ SuccessResponse(q, 200))
                       /\ tokens' = Hold(GenerateToken(user, now))
    /\ UNCHANGED <<users, invitations, projects, now, projectSeq, redeemed, feedback,
                   envSecret>>

\* ------------------------------------------------ PATCH /users/{userId}
\* a body without name, role or isActive
NoUpdates == [name |-> Undefined, role |-> Undefined, isActive |-> Undefined]

\* the roles PATCH /users accepts
ValidRoles == {"client", "developer", "admin"}

\* every field of the body is allowed to every caller
AllowedUpdatesAnyone(user, targetUser, body) == body

\* allowedUpdates: name for the user itself or an admin, role and isActive
\* for an admin only, a role only when it differs from the stored one
AllowedUpdates(user, targetUser, body) ==
    LET isSelf == user.userId = targetUser.id
        isAdmin == user.role = "admin"
    IN  [name |-> IF body.name # Undefined /\ (isSelf \/ isAdmin)
                  THEN body.name ELSE Undefined,
         role |-> IF body.role # Undefined /\ isAdmin /\ body.role # targetUser.role
                  THEN body.role ELSE Undefined,
         isActive |-> IF body.isActive # Undefined /\ isAdmin
                      THEN body.isActive ELSE Undefined]

\* `{...user, ...updates}`
MergeUser(user, updates) ==
    [user EXCEPT
       !.name = IF updates.name # Undefined THEN updates.name ELSE @,
       !.role = IF updates.role # Undefined THEN updates.role ELSE @,
       !.isActive = IF updates.isActive # Undefined THEN updates.isActive ELSE @]

\* authenticateRequest, getUserById, the permitted updates
UpdateUserStart(r, caller, userId, body) ==
    /\ Free(r)
    /\ LET user == AuthenticateRequest(caller, now)
           q == [NullReq EXCEPT !.kind = "updateUser", !.caller = user, !.bearer = caller,
                                !.target = userId]
           found == GetUserById(userId)
       IN  IF user = NoToken
           THEN Return(r, ErrorResponse(q, 401, "Authentication required"))
           ELSE IF found = {}
           THEN Return(r, ErrorResponse(q, 404, "User not found"))
           ELSE \E targetUser \in found :
                LET allowedUpdates == AllowedUpdates(user, targetUser, body)
                IN  IF allowedUpdates.role # Undefined
                       /\ allowedUpdates.role \notin ValidRoles
                    THEN Return(r, ErrorResponse(q, 400, "Invalid role"))
                    ELSE IF allowedUpdates = NoUpdates
                    THEN Return(r, ErrorResponse(q, 400, "No valid updates provided"))
                    ELSE Continue(r, [q EXCEPT !.pc = "updUserRead",
                                               !.user = targetUser,
                                               !.updates = allowedUpdates])
    /\ UNCHANGED <<users, invitations, projects, tokens, now, projectSeq, redeemed,
                   feedback, envSecret>>

\* db.updateUser: getUserByEmail, null when no user has the email
UpdateUserRead(r) ==
    /\ req[r].pc = "updUserRead"
    /\ LET q == req[r]
           found == GetUserByEmail(q.user.email)
       IN  IF found = {}
           THEN Return(r, SuccessResponse(q, 200))
           ELSE \E user \in found :
                  Continue(r, [q EXCEPT !.pc = "updUserWrite",
                                        !.merged = MergeUser(user, q.updates)])
    /\ UNCHANGED <<users, invitations, projects, tokens, now, projectSeq, redeemed,
                   feedback, envSecret>>

\* db.updateUser: item(id, email).replace({...user, ...updates})
UpdateUserWrite(r) ==
    /\ req[r].pc = "updUserWrite"
    /\ LET q == req[r]
       IN  \/ \E store \in ReplaceUser(q.user.id, q.merged) :
                /\ users' = store
                /\ Return(r, [userFields |->
                                  FieldsSent({u \in store : u.id = q.user.id})]
                                @@ SuccessResponse(q, 200))
           \/ /\ ReplaceUserMayThrow(q.user.id, q.merged)
              /\ users' = users
              /\ Return(r, ErrorResponse(q, 500, "Internal server error"))
    /\ UNCHANGED <<invitations, projects, tokens, now, projectSeq, redeemed,
                   feedback, envSecret>>

\* ------------------------------------------------------ POST /projects
\* a url is the sequence of the pieces it is written with, so that prefixing
\* is concatenation; the pieces are "https://", "http://", "ftp://", "http",
\* "acme.com", "bin.org" and "a b"
\* `url.startsWith('http')`
StartsWithHttp(url) == Len(url) > 0 /\ url[1] \in {"https://", "http://", "http"}

\* `url.startsWith('http') ? url : 'https://' + url`
WithScheme(url) == IF StartsWithHttp(url) THEN url ELSE <<"https://">> \o url

\* `new URL(s)` returns: s starts with a scheme and what follows it starts a
\* host, which any piece does ("ftp:" is a host with an empty port) but the
\* one with a space
UrlParses(s) ==
    Len(s) >= 2 /\ s[1] \in {"https://", "http://", "ftp://"} /\ s[2] # "a b"

\* a body with name, client and url, no status and no clients
NewProjectBody ==
    [name |-> "site", url |-> <<"acme.com">>, status |-> Undefined,
     assignedClients |-> Undefined]

CreateProject(r, caller, body) ==
    /\ Free(r)
    /\ LET user == AuthenticateRequest(caller, now)
           q == [NullReq EXCEPT !.kind = "createProject", !.caller = user,
                                !.bearer = caller, !.url = body.url]
       IN  IF user = NoToken
           THEN /\ Return(r, ErrorResponse(q, 401, "Authentication required"))
                /\ UNCHANGED <<projects, projectSeq>>
           ELSE IF ~HasRole(user, {"developer", "admin"})
           THEN /\ Return(r, ErrorResponse(q, 403, "Only developers can create projects"))
                /\ UNCHANGED <<projects, projectSeq>>
           ELSE IF body.name = "" \/ body.url = <<>>
           THEN /\ Return(r, ErrorResponse(q, 400, "Name, client, and URL are required"))
                /\ UNCHANGED <<projects, projectSeq>>
           ELSE IF ~UrlParses(WithScheme(body.url))
           THEN /\ Return(r, ErrorResponse(q, 400, "Invalid URL format"))
                /\ UNCHANGED <<projects, projectSeq>>
           ELSE /\ projectSeq < MaxProjects
                /\ projectSeq' = projectSeq + 1
                /\ projects' = projects \cup
                      {NewProjectDoc(projectSeq + 1, user.organizationId, user.userId,
                                     IF body.assignedClients = Undefined
                                     THEN <<>> ELSE body.assignedClients,
                                     WithScheme(body.url))}
                /\ Return(r, [SuccessResponse(q, 201) EXCEPT !.project = projectSeq + 1])
    /\ UNCHANGED <<users, invitations, tokens, now, redeemed, feedback,
                   envSecret>>

\* -------------------------------------------------- POST /users/invite
\* every role of the system accepted
AllowedRolesWithAdmin == {"client", "developer", "admin"}

\* the roles an invitation may grant
AllowedRoles == {"client", "developer"}

\* `role || 'client'`
RoleOrClient(role) == IF role = Undefined THEN "client" ELSE role

\* the duplicate check: the latest invitation of the email is still pending
InvitationIsActive(existingInvite, t) ==
    ~existingInvite.isUsed /\ existingInvite.expiresAt > t

\* the role-grant rule left out
MayGrantAnyone(userRole, user) == TRUE

\* only admins can invite developers
MayGrant(userRole, user) == ~(userRole = "developer" /\ user.role # "admin")

\* authenticate, authorize, validate the email, look the user up
InviteStart(r, caller, email, role, projectIds) ==
    /\ Free(r)
    /\ LET user == AuthenticateRequest(caller, now)
           q == [NullReq EXCEPT !.kind = "invite", !.caller = user, !.bearer = caller,
                                !.email = email, !.role = role,
                                !.projectIds = projectIds]
       IN  IF user = NoToken
           THEN Return(r, ErrorResponse(q, 401, "Authentication required"))
           ELSE IF ~HasRole(user, {"developer", "admin"})
           THEN Return(r, ErrorResponse(q, 403, "Only developers can invite users"))
           ELSE IF ~EmailRegexTest(email)
           THEN Return(r, ErrorResponse(q, 400, "Invalid email format"))
           ELSE IF GetUserByEmail(email) # {}
           THEN Return(r, ErrorResponse(q, 400, "A user with this email already exists"))
           ELSE Continue(r, [q EXCEPT !.pc = "inviteCheck"])
    /\ UNCHANGED <<users, invitations, projects, tokens, now, projectSeq, redeemed,
                   feedback, envSecret>>

\* the role validation and the role-grant rule, after the duplicate check
InviteCheckRole(r, q) ==
    LET userRole == RoleOrClient(q.role)
    IN  IF userRole \notin AllowedRoles
        THEN Return(r, ErrorResponse(q, 400, "Invalid role"))
        ELSE IF ~MayGrant(userRole, q.caller)
        THEN Return(r, ErrorResponse(q, 403, "Only admins can invite developers"))
        ELSE Continue(r, [q EXCEPT !.pc = "inviteCreate", !.role = userRole])

\* look the latest invitation of the email up, then validate the role
InviteCheck(r) ==
    /\ req[r].pc = "inviteCheck"
    /\ LET q == req[r]
           found == GetInvitationByEmail(q.email)
       IN  IF found = {}
           THEN InviteCheckRole(r, q)
           ELSE \E existingInvite \in found :
                  IF InvitationIsActive(existingInvite, now)
                  THEN Return(r, ErrorResponse(q, 400,
                           "An active invitation already exists for this email"))
                  ELSE InviteCheckRole(r, q)
    /\ UNCHANGED <<users, invitations, projects, tokens, now, projectSeq, redeemed,
                   feedback, envSecret>>

\* sendEmail: without SMTP settings the message is only logged and reported as
\* a success; with them, sendMail delivers it or throws and the throw is caught
SendEmailOutcomes ==
    {[success |-> TRUE, delivered |-> FALSE],
     [success |-> TRUE, delivered |-> TRUE],
     [success |-> FALSE, delivered |-> FALSE]}

\* createInvitation, then sendInvitationEmail
InviteCreate(r) ==
    /\ req[r].pc = "inviteCreate"
    /\ Cardinality(invitations) < MaxInvitations
    /\ LET q == req[r]
           id == Cardinality(invitations) + 1
           invitation == NewInvitationDoc(id, q.email, q.role, q.projectIds,
                            q.caller.organizationId, now + InviteTtl, now)
       IN  /\ invitations' = invitations \cup {invitation}
           /\ \E outcome \in SendEmailOutcomes :
                Return(r, [SuccessResponse(q, 201) EXCEPT
                             !.emailSent = outcome.success,
                             !.delivered = outcome.delivered])
    /\ UNCHANGED <<users, projects, tokens, now, projectSeq, redeemed, feedback,
                   envSecret>>

\* ------------------------------------------- POST /auth/validate-invite
\* the expiry check left out
NeverExpired(invitation, t) == FALSE

\* `new Date(invitation.expiresAt) < new Date()`
IsExpired(invitation, t) == invitation.expiresAt < t

TokenInputs == 1..MaxInvitations

\* the response sent last answered the same endpoint for the same invite token:
\* validate-invite with 200, register with the refusal of a malformed body
Repeats(kind, token) ==
    /\ last.kind = kind /\ last.token = token
    /\ \/ kind = "validateInvite" /\ last.status = 200
       \/ kind = "register" /\ ~last.wellFormed

\* the token is that of a stored, unused invitation whose expiresAt has passed
PastExpiry(token) ==
    \E i \in invitations : i.token = token /\ ~i.isUsed /\ i.expiresAt < now

\* a validate-invite that consumes the invitation it reports
ValidateInviteConsuming(r, token) ==
    /\ Free(r)
    /\ LET q == [NullReq EXCEPT !.kind = "validateInvite", !.token = token,
                                !.stale = PastExpiry(token),
                                !.retry = Repeats("validateInvite", token)]
           found == GetInvitationByToken(token)
       IN  IF found = {}
           THEN /\ Return(r, ErrorResponse(q, 400, "Invalid invitation token"))
                /\ invitations' = invitations
           ELSE \E invitation \in found :
                  /\ Return(r, [SuccessResponse(q, 200) EXCEPT
                                  !.email = invitation.email,
                                  !.role = invitation.role])
                  /\ invitations' = (invitations \ {invitation}) \cup
                                        {[invitation EXCEPT !.isUsed = TRUE]}
    /\ UNCHANGED <<users, projects, tokens, now, projectSeq, redeemed, feedback,
                   envSecret>>

\* getInvitationByToken, check the expiry, report email and role
ValidateInvite(r, token) ==
    /\ Free(r)
    /\ LET q == [NullReq EXCEPT !.kind = "validateInvite", !.token = token,
                                !.stale = PastExpiry(token),
                                !.retry = Repeats("validateInvite", token)]
           found == GetInvitationByToken(token)
       IN  IF found = {}
           THEN Return(r, ErrorResponse(q, 400, "Invalid invitation token"))
           ELSE \E invitation \in found :
                  IF IsExpired(invitation, now)
                  THEN Return(r, ErrorResponse(q, 400, "Invitation has expired"))
                  ELSE Return(r, [SuccessResponse(q, 200) EXCEPT
                                    !.email = invitation.email,
                                    !.role = invitation.role])
    /\ UNCHANGED <<users, invitations, projects, tokens, now, projectSeq, redeemed,
                   feedback, envSecret>>

\* --------------------------------------------------- POST /auth/register
\* the request body passes the handler's own validation
RegisterBodyOk(token, name, password) ==
    /\ token # -1 /\ name # "" /\ password # ""
    /\ PasswordLength(password) >= MinPasswordLength

\* after an invitation project was handled: the next one, or the response
NextProject(q) ==
    IF q.idx < Len(q.inv.projectIds)
    THEN [q EXCEPT !.pc = "regProjRead", !.idx = q.idx + 1,
                   !.clients = <<>>, !.proj = NullProject]
    ELSE [q EXCEPT !.pc = "regRespond", !.clients = <<>>, !.proj = NullProject]

\* the handler without its check of the password length
RegisterStartAnyPassword(r, token, name, password) ==
    /\ Free(r)
    /\ LET q == [NullReq EXCEPT !.kind = "register", !.token = token,
                                !.name = name, !.password = password,
                                !.late = (token \in redeemed),
                                !.stale = PastExpiry(token),
                                !.retry = Repeats("register", token),
                                !.wellFormed = RegisterBodyOk(token, name, password)]
           found == GetInvitationByToken(token)
       IN  IF token = -1 \/ name = "" \/ password = ""
           THEN Return(r, ErrorResponse(q, 400, "Token, name, and password are required"))
           ELSE IF found = {}
           THEN Return(r, ErrorResponse(q, 400, "Invalid or expired invitation token"))
           ELSE \E invitation \in found :
                  IF IsExpired(invitation, now)
                  THEN Return(r, ErrorResponse(q, 400, "Invitation has expired"))
                  ELSE Continue(r, [q EXCEPT !.pc = "regCheckUser", !.inv = invitation])
    /\ UNCHANGED <<users, invitations, projects, tokens, now, projectSeq, redeemed,
                   feedback, envSecret>>

\* validate the body, getInvitationByToken, check the expiry
RegisterStart(r, token, name, password) ==
    /\ Free(r)
    /\ LET q == [NullReq EXCEPT !.kind = "register", !.token = token,
                                !.name = name, !.password = password,
                                !.late = (token \in redeemed),
                                !.stale = PastExpiry(token),
                                !.retry = Repeats("register", token),
                                !.wellFormed = RegisterBodyOk(token, name, password)]
           found == GetInvitationByToken(token)
       IN  IF token = -1 \/ name = "" \/ password = ""
           THEN Return(r, ErrorResponse(q, 400, "Token, name, and password are required"))
           ELSE IF PasswordLength(password) < MinPasswordLength
           THEN Return(r, ErrorResponse(q, 400, "Password must be at least 8 characters"))
           ELSE IF found = {}
           THEN Return(r, ErrorResponse(q, 400, "Invalid or expired invitation token"))
           ELSE \E invitation \in found :
                  IF IsExpired(invitation, now)
                  THEN Return(r, ErrorResponse(q, 400, "Invitation has expired"))
                  ELSE Continue(r, [q EXCEPT !.pc = "regCheckUser", !.inv = invitation])
    /\ UNCHANGED <<users, invitations, projects, tokens, now, projectSeq, redeemed,
                   feedback, envSecret>>

\* the handler with the invitation consumed before the account is created
RegisterCheckUserThenMark(r) ==
    /\ req[r].pc = "regCheckUser"
    /\ IF GetUserByEmail(req[r].inv.email) # {}
       THEN Return(r, ErrorResponse(req[r], 400, "An account with this email already exists"))
       ELSE Continue(r, [req[r] EXCEPT !.pc = "regMarkRead"])
    /\ UNCHANGED <<users, invitations, projects, tokens, now, projectSeq,
                   redeemed, feedback, envSecret>>

\* getUserByEmail(invitation.email)
RegisterCheckUser(r) ==
    /\ req[r].pc = "regCheckUser"
    /\ IF GetUserByEmail(req[r].inv.email) # {}
       THEN Return(r, ErrorResponse(req[r], 400, "An account with this email already exists"))
       ELSE Continue(r, [req[r] EXCEPT !.pc = "regCreateUser"])
    /\ UNCHANGED <<users, invitations, projects, tokens, now, projectSeq, redeemed,
                   feedback, envSecret>>

\* hashPassword, createUser
RegisterCreateUser(r) ==
    /\ req[r].pc = "regCreateUser"
    /\ Cardinality(users) < MaxUsers
    /\ LET q == req[r]
           user == NewUserDoc(Cardinality(users), q.inv.email, q.name,
                              HashPassword(q.password), q.inv.role,
                              q.inv.organizationId, q.inv.projectIds)
       IN  /\ users' = users \cup {user}
           /\ Continue(r, [q EXCEPT !.pc = "regMarkRead", !.user = user,
                                    !.createdUser = TRUE, !.password = ""])
    /\ UNCHANGED <<invitations, projects, tokens, now, projectSeq, redeemed,
                   feedback, envSecret>>

\* markInvitationUsed(invitation.id, invitation.email): getInvitationByEmail
RegisterMarkRead(r) ==
    /\ req[r].pc = "regMarkRead"
    /\ LET q == req[r]
           found == GetInvitationByEmail(q.inv.email)
       IN  IF found = {}
           THEN Continue(r, NextProject(q))
           ELSE \E invitation \in found :
                  Continue(r, [q EXCEPT !.pc = "regMarkWrite", !.latest = invitation])
    /\ UNCHANGED <<users, invitations, projects, tokens, now, projectSeq, redeemed,
                   feedback, envSecret>>

\* the document markInvitationUsed writes back
MarkedUsed(invitation, t) == [invitation EXCEPT !.isUsed = TRUE, !.acceptedAt = t]

\* markInvitationUsed: item(id, email).replace({...invitation, isUsed: true})
RegisterMarkWrite(r) ==
    /\ req[r].pc = "regMarkWrite"
    /\ LET q == req[r]
           updated == MarkedUsed(q.latest, now)
       IN  \/ \E store \in ReplaceInvitation(q.inv.id, updated) :
                /\ invitations' = store
                /\ Continue(r, NextProject([q EXCEPT !.marked = TRUE,
                                                     !.latest = NullInvitation]))
           \/ /\ ReplaceInvitationMayThrow(q.inv.id, updated)
              /\ invitations' = invitations
              /\ Return(r, ErrorResponse(q, 500, "Internal server error"))
    /\ UNCHANGED <<users, projects, tokens, now, projectSeq, redeemed, feedback,
                   envSecret>>

\* the back-fill that forgets the clients already assigned
OnlyClient(assignedClients, userId) == <<userId>>

\* `[...(project.assignedClients || []), user.id]`
WithClient(assignedClients, userId) == Append(assignedClients, userId)

\* getProjectById(projectId, invitation.organizationId), append the user id
RegisterProjRead(r) ==
    /\ req[r].pc = "regProjRead"
    /\ LET q == req[r]
           found == GetProjectById(q.inv.projectIds[q.idx], q.inv.organizationId)
       IN  IF found = {}
           THEN Continue(r, NextProject(q))
           ELSE \E project \in found :
                  Continue(r, [q EXCEPT !.pc = "regProjFetch",
                      !.clients = WithClient(project.assignedClients, q.user.id)])
    /\ UNCHANGED <<users, invitations, projects, tokens, now, projectSeq, redeemed,
                   feedback, envSecret>>

\* db.updateProject: getProjectById, null when the project is gone
RegisterProjFetch(r) ==
    /\ req[r].pc = "regProjFetch"
    /\ LET q == req[r]
           found == GetProjectById(q.inv.projectIds[q.idx], q.inv.organizationId)
       IN  IF found = {}
           THEN Continue(r, NextProject(q))
           ELSE \E project \in found :
                  Continue(r, [q EXCEPT !.pc = "regProjReplace", !.proj = project])
    /\ UNCHANGED <<users, invitations, projects, tokens, now, projectSeq, redeemed,
                   feedback, envSecret>>

\* db.updateProject: replace({...project, ...updates})
RegisterProjReplace(r) ==
    /\ req[r].pc = "regProjReplace"
    /\ LET q == req[r]
           updatedProject == [q.proj EXCEPT !.assignedClients = q.clients]
           stores == ReplaceProject(q.proj.id, q.inv.organizationId, updatedProject)
       IN  IF stores = {}
           THEN /\ projects' = projects
                /\ Return(r, ErrorResponse(q, 500, "Internal server error"))
           ELSE \E store \in stores :
                  /\ projects' = store
                  /\ Continue(r, NextProject(q))
    /\ UNCHANGED <<users, invitations, tokens, now, projectSeq, redeemed, feedback,
                   envSecret>>

\* generateToken(user), 201
RegisterRespond(r) ==
    /\ req[r].pc = "regRespond"
    /\ tokens' = Hold(GenerateToken(req[r].user, now))
    /\ redeemed' = redeemed \cup {req[r].token}
    /\ Return(r, [userFields |-> FieldsSent({req[r].user})]
                    @@ SuccessResponse([req[r] EXCEPT !.backfilled = TRUE], 201))
    /\ UNCHANGED <<users, invitations, projects, now, projectSeq, feedback,
                   envSecret>>

\* ---------------------------------------------------- GET /projects
\* getProjectsForUser: every project of the organization for an admin or a
\* developer, the assigned ones of the organization for anybody else
GetProjectsForUser(userId, role, organizationId) ==
    IF role \in {"admin", "developer"}
    THEN {p \in projects : p.organizationId = OrgOrDefault(organizationId)}
    ELSE {p \in projects : /\ p.organizationId = OrgOrDefault(organizationId)
                           /\ userId \in SeqToSet(p.assignedClients)}

ListProjects(r, caller) ==
    /\ Free(r)
    /\ LET user == AuthenticateRequest(caller, now)
           q == [NullReq EXCEPT !.kind = "listProjects", !.caller = user, !.bearer = caller]
           found == GetProjectsForUser(user.userId, user.role, user.organizationId)
       IN  IF user = NoToken
           THEN Return(r, ErrorResponse(q, 401, "Authentication required"))
           ELSE Return(r, [items |-> {p.id : p \in found}] @@ SuccessResponse(q, 200))
    /\ UNCHANGED <<users, invitations, projects, tokens, now, projectSeq, redeemed,
                   feedback, envSecret>>

\* ------------------------------------------- GET /projects/{projectId}
\* the access check left out
ClientDeniedNever(user, project) == FALSE

\* `user.role === 'client' && !project.assignedClients.includes(user.userId)`
ClientDenied(user, project) ==
    user.role = "client" /\ user.userId \notin SeqToSet(project.assignedClients)

GetProject(r, caller, projectId) ==
    /\ Free(r)
    /\ LET user == AuthenticateRequest(caller, now)
           q == [NullReq EXCEPT !.kind = "getProject", !.caller = user, !.bearer = caller,
                                !.projectId = projectId]
           found == GetProjectById(projectId, user.organizationId)
       IN  IF user = NoToken
           THEN Return(r, ErrorResponse(q, 401, "Authentication required"))
           ELSE IF found = {}
           THEN Return(r, ErrorResponse(q, 404, "Project not found"))
           ELSE \E project \in found :
                  IF ClientDenied(user, project)
                  THEN Return(r, ErrorResponse(q, 403, "Access denied to this project"))
                  ELSE Return(r, [items |-> {project.id}] @@ SuccessResponse(q, 200))
    /\ UNCHANGED <<users, invitations, projects, tokens, now, projectSeq, redeemed,
                   feedback, envSecret>>

\* ----------------------------------------- PATCH /projects/{projectId}
ValidStatuses == {"pending", "in-review", "approved", "archived"}

\* `{...project, ...updates}`
MergeProject(project, updates) ==
    [project EXCEPT
       !.name = IF updates.name # Undefined THEN updates.name ELSE @,
       !.status = IF updates.status # Undefined THEN updates.status ELSE @,
       !.assignedClients = IF updates.assignedClients # Undefined
                           THEN updates.assignedClients ELSE @]

\* authenticateRequest, getProjectById, the updates the caller's role permits
UpdateProjectStart(r, caller, projectId, body) ==
    /\ Free(r)
    /\ LET user == AuthenticateRequest(caller, now)
           q == [NullReq EXCEPT !.kind = "updateProject", !.caller = user, !.bearer = caller,
                                !.projectId = projectId, !.body = body]
           found == GetProjectById(projectId, user.organizationId)
       IN  IF user = NoToken
           THEN Return(r, ErrorResponse(q, 401, "Authentication required"))
           ELSE IF found = {}
           THEN Return(r, ErrorResponse(q, 404, "Project not found"))
           ELSE \E project \in found :
                IF HasRole(user, {"developer", "admin"})
                THEN IF body.status # Undefined /\ body.status \notin ValidStatuses
                     THEN Return(r, ErrorResponse(q, 400, "Invalid status"))
                     ELSE IF body = NoChanges
                     THEN Return(r, ErrorResponse(q, 400, "No valid updates provided"))
                     ELSE Continue(r, [q EXCEPT !.pc = "patchFetch", !.changes = body,
                                                !.before = project.status])
                ELSE IF user.role = "client"
                THEN IF user.userId \notin SeqToSet(project.assignedClients)
                     THEN Return(r, ErrorResponse(q, 403, "Access denied to this project"))
                     ELSE IF body.status = "approved"
                     THEN Continue(r, [q EXCEPT !.pc = "patchFetch",
                                         !.changes = [NoChanges EXCEPT !.status = "approved"],
                                         !.before = project.status])
                     ELSE Return(r, ErrorResponse(q, 403, "Clients can only approve projects"))
                ELSE Return(r, ErrorResponse(q, 400, "No valid updates provided"))
    /\ UNCHANGED <<users, invitations, projects, tokens, now, projectSeq, redeemed,
                   feedback, envSecret>>

\* db.updateProject: getProjectById, null when the project is gone
UpdateProjectFetch(r) ==
    /\ req[r].pc = "patchFetch"
    /\ LET q == req[r]
           found == GetProjectById(q.projectId, q.caller.organizationId)
       IN  IF found = {}
           THEN Return(r, SuccessResponse(q, 200))
           ELSE \E project \in found :
                  Continue(r, [q EXCEPT !.pc = "patchReplace", !.proj = project])
    /\ UNCHANGED <<users, invitations, projects, tokens, now, projectSeq, redeemed,
                   feedback, envSecret>>

\* db.updateProject: replace({...project, ...updates})
UpdateProjectReplace(r) ==
    /\ req[r].pc = "patchReplace"
    /\ LET q == req[r]
           stores == ReplaceProject(q.projectId, q.caller.organizationId,
                                    MergeProject(q.proj, q.changes))
       IN  IF stores = {}
           THEN /\ projects' = projects
                /\ Return(r, ErrorResponse(q, 500, "Internal server error"))
           ELSE \E store \in stores :
                  /\ projects' = store
                  /\ Return(r, [items |-> {q.projectId}] @@ SuccessResponse(q, 200))
    /\ UNCHANGED <<users, invitations, tokens, now, projectSeq, redeemed, feedback,
                   envSecret>>

\* ------------------------------------- POST /projects/{projectId}/feedback
ValidTypes == {"general", "bug", "change", "approval"}

ValidPriorities == {"low", "medium", "high"}

\* createFeedback of the database layer: the stored document
NewFeedbackDoc(id, projectId, type, user) ==
    [id |-> id, projectId |-> projectId,
     type |-> IF type = Undefined THEN "general" ELSE type,
     status |-> IF type = "approval" THEN "resolved" ELSE "open",
     authorId |-> user.userId, authorRole |-> user.role]

\* an approval of any author approves the project
ApprovesAnyone(type, user) == type = "approval"

\* `type === 'approval' && user.role === 'client'`
Approves(type, user) == type = "approval" /\ user.role = "client"

\* authenticateRequest, getProjectById, the access check, the body checks
CreateFeedbackStart(r, caller, projectId, body) ==
    /\ Free(r)
    /\ LET user == AuthenticateRequest(caller, now)
           q == [NullReq EXCEPT !.kind = "createFeedback", !.caller = user, !.bearer = caller,
                                !.projectId = projectId, !.type = body.type]
           found == GetProjectById(projectId, user.organizationId)
       IN  IF user = NoToken
           THEN Return(r, ErrorResponse(q, 401, "Authentication required"))
           ELSE IF found = {}
           THEN Return(r, ErrorResponse(q, 404, "Project not found"))
           ELSE \E project \in found :
                IF ClientDenied(user, project)
                THEN Return(r, ErrorResponse(q, 403, "Access denied"))
                ELSE IF body.text = ""
                THEN Return(r, ErrorResponse(q, 400, "Feedback text is required"))
                ELSE IF body.type # Undefined /\ body.type \notin ValidTypes
                THEN Return(r, ErrorResponse(q, 400, "Invalid feedback type"))
                ELSE IF body.priority # Undefined /\ body.priority \notin ValidPriorities
                THEN Return(r, ErrorResponse(q, 400, "Invalid priority"))
                ELSE Continue(r, [q EXCEPT !.pc = "fbCreate", !.proj = project,
                                           !.before = project.status])
    /\ UNCHANGED <<users, invitations, projects, tokens, now, projectSeq, redeemed,
                   feedback, envSecret>>

\* where the handler goes on after the in-review update
AfterReview(q) ==
    IF Approves(q.type, q.caller)
    THEN [q EXCEPT !.pc = "fbApproveFetch"]
    ELSE [q EXCEPT !.pc = "fbNotify"]

\* db.createFeedback, then `if (project.status === 'pending')` on the project
\* the handler read
CreateFeedbackCreate(r) ==
    /\ req[r].pc = "fbCreate"
    /\ Cardinality(feedback) < MaxFeedback
    /\ LET q == req[r]
       IN  /\ feedback' = feedback \cup
                 {NewFeedbackDoc(Cardinality(feedback) + 1, q.projectId, q.type, q.caller)}
           /\ IF q.proj.status = "pending"
              THEN Continue(r, [q EXCEPT !.pc = "fbReviewFetch"])
              ELSE Continue(r, AfterReview(q))
    /\ UNCHANGED <<users, invitations, projects, tokens, now, projectSeq, redeemed,
                   envSecret>>

\* the two calls of db.updateProject: getProjectById, null when the project
\* is gone
CreateFeedbackFetch(r) ==
    /\ req[r].pc \in {"fbReviewFetch", "fbApproveFetch"}
    /\ LET q == req[r]
           found == GetProjectById(q.projectId, q.caller.organizationId)
       IN  IF found = {}
           THEN IF q.pc = "fbReviewFetch"
                THEN Continue(r, AfterReview(q))
                ELSE Continue(r, [q EXCEPT !.pc = "fbNotify"])
           ELSE \E project \in found :
                  Continue(r, [q EXCEPT !.proj = project,
                                 !.pc = IF q.pc = "fbReviewFetch"
                                        THEN "fbReviewReplace" ELSE "fbApproveReplace"])
    /\ UNCHANGED <<users, invitations, projects, tokens, now, projectSeq, redeemed,
                   feedback, envSecret>>

\* the two calls of db.updateProject: replace({...project, status})
CreateFeedbackReplace(r) ==
    /\ req[r].pc \in {"fbReviewReplace", "fbApproveReplace"}
    /\ LET q == req[r]
           status == IF q.pc = "fbReviewReplace" THEN "in-review" ELSE "approved"
           stores == ReplaceProject(q.projectId, q.caller.organizationId,
                        MergeProject(q.proj, [NoChanges EXCEPT !.status = status]))
       IN  IF stores = {}
           THEN /\ projects' = projects
                /\ Return(r, ErrorResponse(q, 500, "Internal server error"))
           ELSE \E store \in stores :
                  /\ projects' = store
                  /\ IF q.pc = "fbReviewReplace"
                     THEN Continue(r, AfterReview(q))
                     ELSE Continue(r, [q EXCEPT !.pc = "fbNotify"])
    /\ UNCHANGED <<users, invitations, tokens, now, projectSeq, redeemed, feedback,
                   envSecret>>

\* the notification of the assigned developers about a client's feedback
\* (getUserById for each of them, sendFeedbackNotification), then 201
CreateFeedbackNotify(r) ==
    /\ req[r].pc = "fbNotify"
    /\ Return(r, SuccessResponse(req[r], 201))
    /\ UNCHANGED <<users, invitations, projects, tokens, now, projectSeq, redeemed,
                   feedback, envSecret>>

\* ------------------------------------- GET /projects/{projectId}/feedback
\* getFeedbackByProject: WHERE c.projectId = @projectId
GetFeedbackByProject(projectId) == {f \in feedback : f.projectId = projectId}

GetProjectFeedback(r, caller, projectId) ==
    /\ Free(r)
    /\ LET user == AuthenticateRequest(caller, now)
           q == [NullReq EXCEPT !.kind = "getProjectFeedback", !.caller = user, !.bearer = caller,
                                !.projectId = projectId]
           found == GetProjectById(projectId, user.organizationId)
       IN  IF user = NoToken
           THEN Return(r, ErrorResponse(q, 401, "Authentication required"))
           ELSE IF found = {}
           THEN Return(r, ErrorResponse(q, 404, "Project not found"))
           ELSE \E project \in found :
                  IF ClientDenied(user, project)
                  THEN Return(r, ErrorResponse(q, 403, "Access denied"))
                  ELSE Return(r, [items |-> {f.id : f \in GetFeedbackByProject(projectId)}]
                                 @@ SuccessResponse(q, 200))
    /\ UNCHANGED <<users, invitations, projects, tokens, now, projectSeq, redeemed,
                   feedback, envSecret>>

\* ------------------------------------------------------ GET /feedback
\* getAllFeedback: the feedback of the projects of the organization
GetAllFeedback(organizationId) ==
    LET projectIds == {p.id : p \in {p \in projects :
                                 p.organizationId = OrgOrDefault(organizationId)}}
    IN  {f \in feedback : f.projectId \in projectIds}

ListFeedback(r, caller) ==
    /\ Free(r)
    /\ LET user == AuthenticateRequest(caller, now)
           q == [NullReq EXCEPT !.kind = "listFeedback", !.caller = user, !.bearer = caller]
           projectIds == {p.id : p \in GetProjectsForUser(user.userId, user.role,
                                                          user.organizationId)}
           found == IF HasRole(user, {"developer", "admin"})
                    THEN GetAllFeedback(user.organizationId)
                    ELSE UNION {GetFeedbackByProject(p) : p \in projectIds}
       IN  IF user = NoToken
           THEN Return(r, ErrorResponse(q, 401, "Authentication required"))
           ELSE Return(r, [items |-> {f.id : f \in found}] @@ SuccessResponse(q, 200))
    /\ UNCHANGED <<users, invitations, projects, tokens, now, projectSeq, redeemed,
                   feedback, envSecret>>

\* ----------------------------------------- DELETE /projects/{projectId}
\* authenticateRequest, hasRole, getProjectById
DeleteProjectStart(r, caller, projectId) ==
    /\ Free(r)
    /\ LET user == AuthenticateRequest(caller, now)
           q == [NullReq EXCEPT !.kind = "deleteProject", !.caller = user,
                                !.bearer = caller, !.projectId = projectId]
       IN  IF user = NoToken
           THEN Return(r, ErrorResponse(q, 401, "Authentication required"))
           ELSE IF ~HasRole(user, {"developer", "admin"})
           THEN Return(r, ErrorResponse(q, 403, "Only developers can delete projects"))
           ELSE IF GetProjectById(projectId, user.organizationId) = {}
           THEN Return(r, ErrorResponse(q, 404, "Project not found"))
           ELSE Continue(r, [q EXCEPT !.pc = "delDelete"])
    /\ UNCHANGED <<users, invitations, projects, tokens, now, projectSeq, redeemed,
                   feedback, envSecret>>

\* db.deleteProject: item(id, organizationId).delete() with the organizationId
\* of the token and no default.  It throws when the item is gone; without a
\* partition key value the delete either resolves the item or throws.
DeleteProjectDelete(r) ==
    /\ req[r].pc = "delDelete"
    /\ LET q == req[r]
           old == {p \in projects : p.id = q.projectId /\
                     (q.caller.organizationId = Undefined
                        \/ p.organizationId = q.caller.organizationId)}
       IN  \/ /\ old # {}
              /\ projects' = projects \ old
              /\ Return(r, SuccessResponse(q, 200))
           \/ /\ old = {} \/ q.caller.organizationId = Undefined
              /\ projects' = projects
              /\ Return(r, ErrorResponse(q, 500, "Internal server error"))
    /\ UNCHANGED <<users, invitations, tokens, now, projectSeq, redeemed, feedback,
                   envSecret>>

\* ------------------------------------ POST /projects/{projectId}/assign
\* authenticateRequest, hasRole, the clientIds check, getProjectById
AssignClientsStart(r, caller, projectId, clientIds) ==
    /\ Free(r)
    /\ LET user == AuthenticateRequest(caller, now)
           q == [NullReq EXCEPT !.kind = "assignClients", !.caller = user, !.bearer = caller,
                                !.projectId = projectId]
       IN  IF user = NoToken
           THEN Return(r, ErrorResponse(q, 401, "Authentication required"))
           ELSE IF ~HasRole(user, {"developer", "admin"})
           THEN Return(r, ErrorResponse(q, 403, "Only developers can assign clients"))
           ELSE IF clientIds = Undefined
           THEN Return(r, ErrorResponse(q, 400, "clientIds array is required"))
           ELSE IF GetProjectById(projectId, user.organizationId) = {}
           THEN Return(r, ErrorResponse(q, 404, "Project not found"))
           ELSE Continue(r, [q EXCEPT !.pc = "assignFetch",
                               !.changes = [NoChanges EXCEPT !.assignedClients = clientIds]])
    /\ UNCHANGED <<users, invitations, projects, tokens, now, projectSeq, redeemed,
                   feedback, envSecret>>

\* db.updateProject: getProjectById, null when the project is gone
AssignClientsFetch(r) ==
    /\ req[r].pc = "assignFetch"
    /\ LET q == req[r]
           found == GetProjectById(q.projectId, q.caller.organizationId)
       IN  IF found = {}
           THEN Return(r, SuccessResponse(q, 200))
           ELSE \E project \in found :
                  Continue(r, [q EXCEPT !.pc = "assignReplace", !.proj = project])
    /\ UNCHANGED <<users, invitations, projects, tokens, now, projectSeq, redeemed,
                   feedback, envSecret>>

\* db.updateProject: replace({...project, assignedClients})
AssignClientsReplace(r) ==
    /\ req[r].pc = "assignReplace"
    /\ LET q == req[r]
           stores == ReplaceProject(q.projectId, q.caller.organizationId,
                                    MergeProject(q.proj, q.changes))
       IN  IF stores = {}
           THEN /\ projects' = projects
                /\ Return(r, ErrorResponse(q, 500, "Internal server error"))
           ELSE \E store \in stores :
                  /\ projects' = store
                  /\ Return(r, [items |-> {q.projectId}] @@ SuccessResponse(q, 200))
    /\ UNCHANGED <<users, invitations, tokens, now, projectSeq, redeemed, feedback,
                   envSecret>>

\* ------------------------------------------ PATCH /feedback/{feedbackId}
\* a body without status and without projectId (-1)
NoFeedbackPatch == [status |-> Undefined, projectId |-> -1]

FeedbackStatuses == {"open", "in-progress", "resolved"}

\* authenticateRequest, hasRole, the body checks
UpdateFeedbackStart(r, caller, feedbackId, body) ==
    /\ Free(r)
    /\ LET user == AuthenticateRequest(caller, now)
           q == [NullReq EXCEPT !.kind = "updateFeedback", !.caller = user, !.bearer = caller,
                                !.feedbackId = feedbackId, !.target = feedbackId]
       IN  IF user = NoToken
           THEN Return(r, ErrorResponse(q, 401, "Authentication required"))
           ELSE IF ~HasRole(user, {"developer", "admin"})
           THEN Return(r, ErrorResponse(q, 403, "Only developers can update feedback status"))
           ELSE IF body.projectId = NoFeedbackPatch.projectId
           THEN Return(r, ErrorResponse(q, 400, "projectId is required"))
           ELSE IF body.status # Undefined /\ body.status \notin FeedbackStatuses
           THEN Return(r, ErrorResponse(q, 400, "Invalid status"))
           ELSE Continue(r, [q EXCEPT !.pc = "fbkQuery", !.projectId = body.projectId,
                               !.changes = [NoChanges EXCEPT !.status = body.status]])
    /\ UNCHANGED <<users, invitations, projects, tokens, now, projectSeq, redeemed,
                   feedback, envSecret>>

\* db.updateFeedback: WHERE c.id = @id AND c.projectId = @projectId
UpdateFeedbackQuery(r) ==
    /\ req[r].pc = "fbkQuery"
    /\ LET q == req[r]
           found == {f \in feedback : f.id = q.feedbackId /\ f.projectId = q.projectId}
       IN  IF found = {}
           THEN Return(r, ErrorResponse(q, 404, "Feedback not found"))
           ELSE \E f \in found : Continue(r, [q EXCEPT !.pc = "fbkReplace", !.fb = f])
    /\ UNCHANGED <<users, invitations, projects, tokens, now, projectSeq, redeemed,
                   feedback, envSecret>>

\* db.updateFeedback: item(id, projectId).replace({...feedback, ...updates})
UpdateFeedbackReplace(r) ==
    /\ req[r].pc = "fbkReplace"
    /\ LET q == req[r]
           old == {f \in feedback : f.id = q.feedbackId /\ f.projectId = q.projectId}
       IN  IF old = {}
           THEN /\ feedback' = feedback
                /\ Return(r, ErrorResponse(q, 500, "Internal server error"))
           ELSE /\ feedback' = (feedback \ old) \cup
                     {[q.fb EXCEPT !.status = IF q.changes.status # Undefined
                                              THEN q.changes.status ELSE @]}
                /\ Return(r, [items |-> {q.feedbackId}] @@ SuccessResponse(q, 200))
    /\ UNCHANGED <<users, invitations, projects, tokens, now, projectSeq, redeemed,
                   envSecret>>

\* -------------------------------------------------------- GET /auth/me
\* the handler reads the header and verifies the token itself, with the
\* trimmed secret
Me(r, caller) ==
    /\ Free(r)
    /\ LET q == [NullReq EXCEPT !.kind = "me", !.bearer = caller]
           userPayload == IF caller # NoToken /\ caller.key = Trim(JWT_SECRET)
                             /\ now < caller.exp
                          THEN caller ELSE NoToken
           known == [subject |-> userPayload.userId]
       IN  IF caller = NoToken
           THEN Return(r, ErrorResponse(q, 401, "No Authorization header"))
           ELSE IF userPayload = NoToken
           THEN Return(r, [details |-> {"message"},
                           secretParts |-> {"prefix", "length"}]
                          @@ ErrorResponse(q, 401, "Invalid token"))
           ELSE IF GetUserById(userPayload.userId) = {}
           THEN Return(r, known @@ ErrorResponse(q, 404, "User not found"))
           ELSE Return(r, [userFields |-> FieldsSent(GetUserById(userPayload.userId)),
                           secretParts |-> {"prefix"}]
                          @@ known @@ SuccessResponse(q, 200))
    /\ UNCHANGED <<users, invitations, projects, tokens, now, projectSeq, redeemed,
                   feedback, envSecret>>

\* initDatabase or getUserById throws after the token was verified: the catch
\* block of me answers with error.message beside the generic message
MeThrows(r, caller) ==
    /\ Free(r)
    /\ caller # NoToken /\ caller.key = Trim(JWT_SECRET) /\ now < caller.exp
    /\ Return(r, [details |-> {"message"}]
                    @@ ErrorResponse([NullReq EXCEPT !.kind = "me", !.bearer = caller],
                                     500, "Internal server error"))
    /\ UNCHANGED <<users, invitations, projects, tokens, now, projectSeq, redeemed,
                   feedback, envSecret>>

\* ---------------------------------------------------------- GET /users
\* getAllUsers: WHERE c.organizationId = @orgId
GetAllUsers(organizationId) ==
    {u \in users : u.organizationId = OrgOrDefault(organizationId)}

ListUsers(r, caller) ==
    /\ Free(r)
    /\ LET user == AuthenticateRequest(caller, now)
           q == [NullReq EXCEPT !.kind = "listUsers", !.caller = user, !.bearer = caller]
       IN  IF user = NoToken
           THEN Return(r, ErrorResponse(q, 401, "Authentication required"))
           ELSE IF ~HasRole(user, {"developer", "admin"})
           THEN Return(r, ErrorResponse(q, 403, "Access denied"))
           ELSE Return(r, [items |-> {u.id : u \in GetAllUsers(user.organizationId)},
                           userFields |-> FieldsSent(GetAllUsers(user.organizationId))]
                          @@ SuccessResponse(q, 200))
    /\ UNCHANGED <<users, invitations, projects, tokens, now, projectSeq, redeemed,
                   feedback, envSecret>>

\* -------------------------------------------------- GET /users/clients
\* getClientUsers: WHERE c.organizationId = @orgId AND c.role = "client"
GetClientUsers(organizationId) ==
    {u \in users : u.organizationId = OrgOrDefault(organizationId) /\ u.role = "client"}

ListClients(r, caller) ==
    /\ Free(r)
    /\ LET user == AuthenticateRequest(caller, now)
           q == [NullReq EXCEPT !.kind = "listClients", !.caller = user, !.bearer = caller]
       IN  IF user = NoToken
           THEN Return(r, ErrorResponse(q, 401, "Authentication required"))
           ELSE IF ~HasRole(user, {"developer", "admin"})
           THEN Return(r, ErrorResponse(q, 403, "Access denied"))
           ELSE Return(r, [items |-> {u.id : u \in GetClientUsers(user.organizationId)},
                           userFields |-> FieldsSent(GetClientUsers(user.organizationId))]
                          @@ SuccessResponse(q, 200))
    /\ UNCHANGED <<users, invitations, projects, tokens, now, projectSeq, redeemed,
                   feedback, envSecret>>

\* ---------------------------------------------- GET /users/invitations
\* getPendingInvitations: WHERE c.organizationId = @orgId AND c.isUsed = false
GetPendingInvitations(organizationId) ==
    {i \in invitations : i.organizationId = OrgOrDefault(organizationId) /\ ~i.isUsed}

ListInvitations(r, caller) ==
    /\ Free(r)
    /\ LET user == AuthenticateRequest(caller, now)
           q == [NullReq EXCEPT !.kind = "listInvitations", !.caller = user, !.bearer = caller]
       IN  IF user = NoToken
           THEN Return(r, ErrorResponse(q, 401, "Authentication required"))
           ELSE IF ~HasRole(user, {"developer", "admin"})
           THEN Return(r, ErrorResponse(q, 403, "Access denied"))
           ELSE Return(r, [items |-> {i.id : i \in GetPendingInvitations(user.organizationId)}]
                          @@ SuccessResponse(q, 200))
    /\ UNCHANGED <<users, invitations, projects, tokens, now, projectSeq, redeemed,
                   feedback, envSecret>>

\* ---------------------------------------------------------- GET /stats
\* the response lists in items the invitations counted in pendingInvitations,
\* a number that only a developer or an administrator is sent
GetStats(r, caller) ==
    /\ Free(r)
    /\ LET user == AuthenticateRequest(caller, now)
           q == [NullReq EXCEPT !.kind = "getStats", !.caller = user, !.bearer = caller]
       IN  IF user = NoToken
           THEN Return(r, ErrorResponse(q, 401, "Authentication required"))
           ELSE IF HasRole(user, {"developer", "admin"})
           THEN Return(r, [items |-> {i.id : i \in GetPendingInvitations(user.organizationId)}]
                          @@ SuccessResponse(q, 200))
           ELSE Return(r, SuccessResponse(q, 200))
    /\ UNCHANGED <<users, invitations, projects, tokens, now, projectSeq, redeemed,
                   feedback, envSecret>>

\* ------------------------------------------------ persistence failures
\* the positions at which a handler awaits the store
StorePcs == {"inviteCheck", "inviteCreate", "regCheckUser", "regCreateUser",
             "regMarkRead", "regMarkWrite", "regProjRead", "regProjFetch",
             "regProjReplace", "updUserRead", "updUserWrite", "patchFetch",
             "patchReplace", "fbCreate", "fbReviewFetch", "fbReviewReplace",
             "fbApproveFetch", "fbApproveReplace", "fbNotify", "delDelete",
             "assignFetch", "assignReplace", "fbkQuery", "fbkReplace"}

\* the awaited call throws: the handler's catch block answers 500
StoreThrows(r) ==
    /\ req[r].pc \in StorePcs
    /\ Return(r, ErrorResponse(req[r], 500, "Internal server error"))
    /\ UNCHANGED <<users, invitations, projects, tokens, now, projectSeq, redeemed,
                   feedback, envSecret>>

\* ------------------------------------------------------ specifications
Init ==
    /\ envSecret = "s3cret"
    /\ users = {SeedAdmin}
    /\ invitations = {}
    /\ projects = {}
    /\ tokens = {}
    /\ now = 0
    /\ req = [r \in Reqs |-> NullReq]
    /\ projectSeq = 0
    /\ last = NullResponse
    /\ redeemed = {}
    /\ feedback = {}

\* the bearer tokens a request can carry
Callers == tokens \cup {NoToken}

\* the request bodies of a specification: the invitation lifecycle of one
\* address (in two spellings) with and without a preassigned project
LifecycleInputs ==
    [emails |-> {"ann@x.com", "ANN@x.com"},
     roles |-> {Undefined},
     projectIds |-> {<<>>, <<1>>},
     assignedClients |-> {<<0>>},
     passwords |-> {"short", "longenough"},
     loginEmails |-> {AdminEmail},
     loginPasswords |-> {"adminpass"}]

\* the role-grant rule: two addresses, every role a body can ask for
RoleInputs ==
    [emails |-> {"ann@x.com", "bob@x.com", "not-an-email"},
     roles |-> {Undefined, "developer", "admin"},
     projectIds |-> {<<1>>},
     assignedClients |-> {<<>>},
     passwords |-> {"longenough"},
     loginEmails |-> {AdminEmail, "bob@x.com"},
     loginPasswords |-> {"adminpass", "longenough"}]

\* accounts: one invited address, the administrator switching accounts off
\* and on and changing a role
AccountInputs ==
    [emails |-> {"bob@x.com"},
     roles |-> {Undefined},
     projectIds |-> {<<1>>},
     assignedClients |-> {<<>>},
     passwords |-> {"longenough"},
     loginEmails |-> {AdminEmail, "bob@x.com"},
     loginPasswords |-> {"adminpass", "longenough"},
     userIds |-> {0, 1},
     bodies |-> {[NoUpdates EXCEPT !.isActive = "false"],
                 [NoUpdates EXCEPT !.isActive = "true"],
                 [NoUpdates EXCEPT !.role = "developer"]}]

\* review: the project and one id without a project, PATCH bodies with a
\* status, a name or both, feedback bodies of two types and malformed ones
ReviewInputs ==
    [routeIds |-> {1, 2},
     patches |-> {NoChanges,
                  [NoChanges EXCEPT !.status = "approved"],
                  [NoChanges EXCEPT !.status = "pending"],
                  [NoChanges EXCEPT !.status = "shipped"],
                  [NoChanges EXCEPT !.name = "renamed"],
                  [NoChanges EXCEPT !.status = "approved", !.name = "renamed"]},
     comments |-> {[NoFeedbackBody EXCEPT !.text = "fine"],
                   [NoFeedbackBody EXCEPT !.text = "fine", !.type = "approval"],
                   [NoFeedbackBody EXCEPT !.text = "fine", !.type = "praise"],
                   [NoFeedbackBody EXCEPT !.text = "fine", !.priority = "urgent"],
                   [NoFeedbackBody EXCEPT !.type = "approval"]}]

\* the gate: one body for each protected endpoint
GateInputs ==
    [routeIds |-> {1},
     projectBodies |-> {NewProjectBody},
     patches |-> {[NoChanges EXCEPT !.name = "site"]},
     clientIds |-> {<<2>>},
     comments |-> {[NoFeedbackBody EXCEPT !.text = "fine"]},
     feedbackIds |-> {1},
     feedbackPatches |-> {[NoFeedbackPatch EXCEPT !.status = "resolved", !.projectId = 1]},
     emails |-> {"bob@x.com"},
     roles |-> {Undefined},
     projectIds |-> {<<>>},
     userIds |-> {0},
     bodies |-> {[NoUpdates EXCEPT !.role = "client", !.isActive = "false"]}]

\* racing requests: one address, one project
RaceInputs ==
    [emails |-> {"ann@x.com"},
     roles |-> {Undefined},
     projectIds |-> {<<1>>},
     assignedClients |-> {<<>>},
     passwords |-> {"longenough"},
     loginEmails |-> {AdminEmail},
     loginPasswords |-> {"adminpass"}]

\* login and project creation in slot r, for request bodies drawn from In
AccountStep(r, In) ==
    \/ \E e \in In.loginEmails, p \in In.loginPasswords : Login(r, e, p)
    \/ \E c \in Callers, a \in In.assignedClients :
          CreateProject(r, c, [NewProjectBody EXCEPT !.assignedClients = a])

\* the steps of the invitation handlers in slot r
LifecycleStep(r, In) ==
    \/ \E c \in Callers, e \in In.emails, ro \in In.roles,
          ps \in In.projectIds : InviteStart(r, c, e, ro, ps)
    \/ InviteCheck(r)
    \/ InviteCreate(r)
    \/ \E t \in TokenInputs : ValidateInvite(r, t)
    \/ \E t \in TokenInputs, p \in In.passwords : RegisterStart(r, t, "Ann", p)
    \/ RegisterCheckUser(r)
    \/ RegisterCreateUser(r)
    \/ RegisterMarkRead(r)
    \/ RegisterMarkWrite(r)
    \/ RegisterProjRead(r)
    \/ RegisterProjFetch(r)
    \/ RegisterProjReplace(r)
    \/ RegisterRespond(r)

\* token refresh and user administration in slot r
UserStep(r, In) ==
    \/ \E c \in Callers : RefreshToken(r, c)
    \/ \E c \in Callers, u \in In.userIds, b \in In.bodies :
          UpdateUserStart(r, c, u, b)
    \/ UpdateUserRead(r)
    \/ UpdateUserWrite(r)

\* the steps of the project and feedback handlers in slot r
ReviewStep(r, In) ==
    \/ \E c \in Callers : ListProjects(r, c)
    \/ \E c \in Callers, p \in In.routeIds : GetProject(r, c, p)
    \/ \E c \in Callers, p \in In.routeIds, b \in In.patches :
          UpdateProjectStart(r, c, p, b)
    \/ UpdateProjectFetch(r)
    \/ UpdateProjectReplace(r)
    \/ \E c \in Callers, p \in In.routeIds, b \in In.comments :
          CreateFeedbackStart(r, c, p, b)
    \/ CreateFeedbackCreate(r)
    \/ CreateFeedbackFetch(r)
    \/ CreateFeedbackReplace(r)
    \/ CreateFeedbackNotify(r)
    \/ \E c \in Callers, p \in In.routeIds : GetProjectFeedback(r, c, p)
    \/ \E c \in Callers : ListFeedback(r, c)

\* the values a request can carry as bearer: a held token, none, something
\* that is no token, the payload of a live administrator token under a
\* foreign signature
Presented ==
    Callers \cup {Malformed}
       \cup {Forged(tok) : tok \in {t \in tokens : t.role = "admin" /\ now < t.exp}}

\* the steps of the bearer-protected handlers in slot r, for any bearer
GateStep(r, In) ==
    \/ \E c \in Presented : ListProjects(r, c)
    \/ \E c \in Presented, p \in In.routeIds : GetProject(r, c, p)
    \/ \E c \in Presented, b \in In.projectBodies : CreateProject(r, c, b)
    \/ \E c \in Presented, p \in In.routeIds, b \in In.patches :
          UpdateProjectStart(r, c, p, b)
    \/ UpdateProjectFetch(r)
    \/ UpdateProjectReplace(r)
    \/ \E c \in Presented, p \in In.routeIds : DeleteProjectStart(r, c, p)
    \/ DeleteProjectDelete(r)
    \/ \E c \in Presented, p \in In.routeIds, cs \in In.clientIds :
          AssignClientsStart(r, c, p, cs)
    \/ AssignClientsFetch(r)
    \/ AssignClientsReplace(r)
    \/ \E c \in Presented : ListFeedback(r, c)
    \/ \E c \in Presented, p \in In.routeIds : GetProjectFeedback(r, c, p)
    \/ \E c \in Presented, p \in In.routeIds, b \in In.comments :
          CreateFeedbackStart(r, c, p, b)
    \/ CreateFeedbackCreate(r)
    \/ CreateFeedbackFetch(r)
    \/ CreateFeedbackReplace(r)
    \/ CreateFeedbackNotify(r)
    \/ \E c \in Presented, f \in In.feedbackIds, b \in In.feedbackPatches :
          UpdateFeedbackStart(r, c, f, b)
    \/ UpdateFeedbackQuery(r)
    \/ UpdateFeedbackReplace(r)
    \/ \E c \in Presented : GetStats(r, c)
    \/ \E c \in Presented, e \in In.emails, ro \in In.roles, ps \in In.projectIds :
          InviteStart(r, c, e, ro, ps)
    \/ InviteCheck(r)
    \/ InviteCreate(r)
    \/ \E c \in Presented : ListUsers(r, c)
    \/ \E c \in Presented : ListClients(r, c)
    \/ \E c \in Presented : ListInvitations(r, c)
    \/ \E c \in Presented, u \in In.userIds, b \in In.bodies :
          UpdateUserStart(r, c, u, b)
    \/ UpdateUserRead(r)
    \/ UpdateUserWrite(r)
    \/ \E c \in Presented : Me(r, c)
    \/ \E c \in Presented : RefreshToken(r, c)

\* a step of any handler in slot r
Step(r, In) == AccountStep(r, In) \/ LifecycleStep(r, In)

\* the service once the administrator has logged in, with or without a project
InitServing ==
    /\ envSecret = "s3cret"
    /\ users = {SeedAdmin}
    /\ invitations = {}
    /\ \/ projects = {} /\ projectSeq = 0
       \/ /\ projects = {NewProjectDoc(1, Undefined, 0, <<>>, <<"https://", "acme.com">>)}
          /\ projectSeq = 1
    /\ tokens = {LoginToken(SeedAdmin, 0)}
    /\ now = 0
    /\ req = [r \in Reqs |-> NullReq]
    /\ last = NullResponse
    /\ redeemed = {}
    /\ feedback = {}

\* the invitation handlers, served concurrently
Next == Tick \/ \E r \in Reqs : LifecycleStep(r, RaceInputs)

Spec == InitServing /\ [][Next]_vars

\* one request at a time: a single slot serves, so that a handler runs to its
\* response before the next one starts
NextSeq ==
    \/ Tick
    \/ \E tok \in tokens : Logout(tok)
    \/ Step(1, LifecycleInputs)

SpecSeq == Init /\ [][NextSeq]_vars

\* one request at a time, and any awaited store call may throw
NextSeqFault == NextSeq \/ StoreThrows(1)

SpecSeqFault == Init /\ [][NextSeqFault]_vars

\* one request at a time, within one week, over the role inputs
NextRoles ==
    \/ \E tok \in tokens : Logout(tok)
    \/ Step(1, RoleInputs)

SpecRoles == Init /\ [][NextRoles]_vars

\* one request at a time, within one week: login, refresh, PATCH /users, one
\* project and the invitation of one account
NextAccounts ==
    \/ \E tok \in tokens : Logout(tok)
    \/ Step(1, AccountInputs)
    \/ UserStep(1, AccountInputs)

SpecAccounts == Init /\ [][NextAccounts]_vars

\* the two clients the administrator invited, after they registered: Ann for
\* project 1, Bob for no project
Ann == NewUserDoc(1, "ann@x.com", "Ann", HashPassword("longenough"), Undefined,
                  Undefined, <<1>>)

Bob == NewUserDoc(2, "bob@x.com", "Ann", HashPassword("longenough"), Undefined,
                  Undefined, <<>>)

\* the service once the administrator has logged in, created project 1,
\* invited Ann for it and Bob for nothing, and both have registered
InitReview ==
    /\ envSecret = "s3cret"
    /\ users = {SeedAdmin, Ann, Bob}
    /\ invitations =
          {MarkedUsed(NewInvitationDoc(1, "ann@x.com", Undefined, <<1>>, Undefined,
                                       InviteTtl, 0), 0),
           MarkedUsed(NewInvitationDoc(2, "bob@x.com", Undefined, <<>>, Undefined,
                                       InviteTtl, 0), 0)}
    /\ projects = {[NewProjectDoc(1, Undefined, 0, <<>>, <<"https://", "acme.com">>) EXCEPT
                      !.assignedClients = <<1>>]}
    /\ projectSeq = 1
    /\ tokens = {LoginToken(SeedAdmin, 0), GenerateToken(Ann, 0),
                 GenerateToken(Bob, 0)}
    /\ now = 0
    /\ req = [r \in Reqs |-> NullReq]
    /\ last = NullResponse
    /\ redeemed = {1, 2}
    /\ feedback = {}

\* one request at a time on the project and its feedback
NextReview == ReviewStep(1, ReviewInputs)

SpecReview == InitReview /\ [][NextReview]_vars

\* the second week of the service: the administrator logged in in the first
\* week and again in the second, then invited Ann, who registered
InitGate ==
    /\ envSecret = "s3cret"
    /\ users = {SeedAdmin, [Ann EXCEPT !.assignedProjects = <<>>]}
    /\ invitations =
          {MarkedUsed(NewInvitationDoc(1, "ann@x.com", Undefined, <<>>, Undefined,
                                       1 + InviteTtl, 1), 1)}
    /\ projects = {}
    /\ projectSeq = 0
    /\ tokens = {LoginToken(SeedAdmin, 0), LoginToken(SeedAdmin, 1),
                 GenerateToken(Ann, 1)}
    /\ now = 1
    /\ req = [r \in Reqs |-> NullReq]
    /\ last = NullResponse
    /\ redeemed = {1}
    /\ feedback = {}

\* one request at a time on every bearer-protected endpoint
SpecGate == InitGate /\ [][GateStep(1, GateInputs)]_vars

\* accounts: the logins of the administrator and of Ann, the registration of
\* Bob, and one PATCH body that names all three fields
PeopleInputs ==
    [loginEmails |-> {AdminEmail, "ann@x.com"},
     loginPasswords |-> {"adminpass", "longenough"},
     passwords |-> {"longenough"},
     userIds |-> {0, 1},
     bodies |-> {[name |-> "Zed", role |-> "developer", isActive |-> "false"]}]

\* the steps of the handlers that answer with user objects, in slot r, any
\* call to the store throwing or not
PeopleStep(r, In) ==
    \/ \E e \in In.loginEmails, p \in In.loginPasswords : Login(r, e, p)
    \/ \E t \in TokenInputs, p \in In.passwords : RegisterStart(r, t, "Bob", p)
    \/ RegisterCheckUser(r)
    \/ RegisterCreateUser(r)
    \/ RegisterMarkRead(r)
    \/ RegisterMarkWrite(r)
    \/ RegisterProjRead(r)
    \/ RegisterProjFetch(r)
    \/ RegisterProjReplace(r)
    \/ RegisterRespond(r)
    \/ UserStep(r, In)
    \/ \E c \in Presented : Me(r, c)
    \/ \E c \in Presented : ListUsers(r, c)
    \/ \E c \in Presented : ListClients(r, c)
    \/ \E e \in In.loginEmails, p \in In.loginPasswords : LoginThrows(r, e, p)
    \/ \E c \in Presented : MeThrows(r, c)
    \/ StoreThrows(r)

\* the second week of the service: Ann has registered for project 1, and Bob
\* holds an invitation for it that he has not redeemed
InitPeople ==
    /\ envSecret = "s3cret"
    /\ users = {SeedAdmin, Ann}
    /\ invitations =
          {MarkedUsed(NewInvitationDoc(1, "ann@x.com", Undefined, <<1>>, Undefined,
                                       1 + InviteTtl, 1), 1),
           NewInvitationDoc(2, "bob@x.com", Undefined, <<1>>, Undefined,
                            1 + InviteTtl, 1)}
    /\ projects = {[NewProjectDoc(1, Undefined, 0, <<>>, <<"https://", "acme.com">>)
                      EXCEPT !.assignedClients = <<1>>]}
    /\ projectSeq = 1
    /\ tokens = {LoginToken(SeedAdmin, 1), GenerateToken(Ann, 1)}
    /\ now = 1
    /\ req = [r \in Reqs |-> NullReq]
    /\ last = NullResponse
    /\ redeemed = {1}
    /\ feedback = {}

\* one request at a time on the endpoints that answer with user objects
SpecPeople == InitPeople /\ [][PeopleStep(1, PeopleInputs)]_vars

\* the administrator at work over the weeks, in slot r: logins, project bodies
\* with urls of every shape and with a status, reads of the pending
\* invitations, and Bob's registration and refreshes
DeployStep(r) ==
    \/ Login(r, AdminEmail, "adminpass")
    \/ \E c \in Callers : RefreshToken(r, c)
    \/ \E c \in Callers,
          u \in {<<"acme.com">>, <<"https://", "acme.com">>, <<"http", "bin.org">>,
                 <<"ftp://", "acme.com">>, <<"a b">>},
          s \in {Undefined, "approved"} :
          CreateProject(r, c, [NewProjectBody EXCEPT !.url = u, !.status = s])
    \/ \E c \in Callers : ListInvitations(r, c)
    \/ \E c \in Callers : GetStats(r, c)
    \/ \E t \in TokenInputs : RegisterStart(r, t, "Bob", "longenough")
    \/ RegisterCheckUser(r)
    \/ RegisterCreateUser(r)
    \/ RegisterMarkRead(r)
    \/ RegisterMarkWrite(r)
    \/ RegisterProjRead(r)
    \/ RegisterProjFetch(r)
    \/ RegisterProjReplace(r)
    \/ RegisterRespond(r)

\* a deployment with or without JWT_SECRET in its settings, after the
\* administrator invited Bob for the project to come and logged out
InitDeploy ==
    /\ envSecret \in {Undefined, "s3cret"}
    /\ users = {SeedAdmin}
    /\ invitations = {NewInvitationDoc(1, "bob@x.com", Undefined, <<1>>, Undefined,
                                       InviteTtl, 0)}
    /\ projects = {}
    /\ projectSeq = 0
    /\ tokens = {}
    /\ now = 0
    /\ req = [r \in Reqs |-> NullReq]
    /\ last = NullResponse
    /\ redeemed = {}
    /\ feedback = {}

\* one request at a time while the weeks pass
SpecDeploy == InitDeploy /\ [][Tick \/ DeployStep(1)]_vars

\* two requests in flight on project 1: Bob's registration in slot 1, and in
\* slot 2 an assignment of the project's clients or a PATCH of its status
ProjectRace ==
    \/ \E t \in TokenInputs : RegisterStart(1, t, "Bob", "longenough")
    \/ RegisterCheckUser(1)
    \/ RegisterCreateUser(1)
    \/ RegisterMarkRead(1)
    \/ RegisterMarkWrite(1)
    \/ RegisterProjRead(1)
    \/ RegisterProjFetch(1)
    \/ RegisterProjReplace(1)
    \/ RegisterRespond(1)
    \/ \E c \in Callers : AssignClientsStart(2, c, 1, <<>>)
    \/ AssignClientsFetch(2)
    \/ AssignClientsReplace(2)
    \/ \E c \in Callers :
          UpdateProjectStart(2, c, 1, [NoChanges EXCEPT !.status = "approved"])
    \/ UpdateProjectFetch(2)
    \/ UpdateProjectReplace(2)

\* the two requests served concurrently
SpecProjectRace == InitPeople /\ [][ProjectRace]_vars

\* two feedback requests in flight on project 1: a comment in slot 1 and an
\* approval in slot 2
\* the end of a project: the administrator archives it, the client still
\* approves and comments
NextArchive ==
    ReviewStep(1, [ReviewInputs EXCEPT
                      !.routeIds = {1},
                      !.patches = {[NoChanges EXCEPT !.status = "archived"],
                                   [NoChanges EXCEPT !.status = "approved"]},
                      !.comments = {[NoFeedbackBody EXCEPT !.text = "fine"],
                                    [NoFeedbackBody EXCEPT !.text = "fine",
                                                           !.type = "approval"]}])

SpecArchive == InitReview /\ [][NextArchive]_vars

FeedbackRace ==
    \/ \E c \in Callers :
          CreateFeedbackStart(1, c, 1, [NoFeedbackBody EXCEPT !.text = "fine"])
    \/ \E c \in Callers :
          CreateFeedbackStart(2, c, 1, [NoFeedbackBody EXCEPT !.text = "fine",
                                                              !.type = "approval"])
    \/ \E r \in {1, 2} : CreateFeedbackCreate(r)
    \/ \E r \in {1, 2} : CreateFeedbackFetch(r)
    \/ \E r \in {1, 2} : CreateFeedbackReplace(r)
    \/ \E r \in {1, 2} : CreateFeedbackNotify(r)

\* the two requests served concurrently on the pending project
SpecFeedbackRace == InitReview /\ [][FeedbackRace]_vars

\* ------------------------------------------------------------ properties
\* the invitation counts as active: unused and not past its expiresAt
ActiveAt(i, t) == ~i.isUsed /\ ~(i.expiresAt < t)

\* C1: a register call that comes after its token has been redeemed returns
\* 400, creates no user, and, when its body is well formed, is refused as
\* "Invalid or expired invitation token"
C1_RedeemOnce ==
    (last.kind = "register" /\ last.late) =>
        /\ last.status = 400
        /\ ~last.createdUser
        /\ last.wellFormed => last.error = "Invalid or expired invitation token"

C1_Witness ==
    /\ last.kind = "register" /\ last.late /\ last.wellFormed
    /\ last.status = 400
    /\ \E i \in invitations : i.isUsed

\* C2: at most one user document per lowercased email
C2_UniqueEmail ==
    \A u1, u2 \in users : u1.email = u2.email => u1 = u2

\* what a successful register leaves behind for the request q
RegisterPost(q) ==
    /\ q.user \in users
    /\ q.user.email = q.inv.email
    /\ q.user.role = q.inv.role
    /\ q.user.organizationId = q.inv.organizationId
    /\ q.user.assignedProjects = q.inv.projectIds
    /\ \E i \in invitations :
          i.id = q.inv.id /\ i.isUsed /\ i.acceptedAt # NullInvitation.acceptedAt
    /\ \A k \in 1..Len(q.inv.projectIds) :
          \A p \in GetProjectById(q.inv.projectIds[k], q.inv.organizationId) :
              q.user.id \in SeqToSet(p.assignedClients)

\* C3: when register answers 201 the new user carries the invitation's email,
\* role, organizationId and projectIds, the invitation is used with acceptedAt
\* set, every existing project of projectIds lists the user, and the write to
\* a project keeps the clients it already listed
C3_RegisterEffects ==
    [][\A r \in Reqs :
          /\ (req[r].pc = "regRespond" /\ Free(r)' /\ last'.status = 201)
                => RegisterPost(req[r])
          /\ req[r].pc = "regProjReplace" =>
                \A p \in projects : \E p2 \in projects' :
                    /\ p2.id = p.id
                    /\ SeqToSet(p.assignedClients) \subseteq SeqToSet(p2.assignedClients)
      ]_vars

C3_Witness ==
    /\ last.kind = "register" /\ last.status = 201 /\ last.backfilled
    /\ \E p \in projects, u \in users \ {SeedAdmin} :
          /\ u.assignedProjects = <<p.id>>
          /\ SeqToSet(p.assignedClients) = {SeedAdmin.id, u.id}

\* C4: an invitation that is marked used has a user with its email
C4_UsedImpliesUser ==
    \A i \in invitations : i.isUsed => \E u \in users : u.email = i.email

C4_Witness ==
    /\ last.kind = "register" /\ last.status = 500 /\ last.marked
    /\ \E i \in invitations : i.isUsed

\* C5: a register request that has ended has applied all of its three effects
\* or none of them
C5_AllOrNothing ==
    (last.kind = "register" /\ last.status # 0) =>
        \/ last.createdUser /\ last.marked /\ last.backfilled
        \/ ~last.createdUser /\ ~last.marked /\ ~last.backfilled

\* C6: at most one active invitation per lowercased email
C6_OneActiveInvitation ==
    \A i, j \in invitations :
        (i.email = j.email /\ ActiveAt(i, now) /\ ActiveAt(j, now)) => i = j

\* C7: invite stores an invitation only for an email that has neither a user
\* nor an active invitation
C7_DuplicateRefused ==
    [][\A r \in Reqs :
          (req[r].pc = "inviteCreate" /\ invitations' # invitations) =>
              /\ GetUserByEmail(req[r].email) = {}
              /\ \A i \in invitations :
                    i.email = ToLowerCase(req[r].email) => ~ActiveAt(i, now)
      ]_vars

C9_NoAdminByInvitation ==
    [][/\ \A i \in invitations' : i.role \in {"client", "developer"}
       /\ \A u \in users' \ users : u.role # "admin"]_vars

C9_Witness ==
    /\ \E i \in invitations : i.role = "developer" /\ i.isUsed
    /\ \E u \in users : u.role = "developer"
    /\ \E i \in invitations : i.role = "client"

\* C10: validate-invite and register called for an invitation whose expiresAt
\* has passed are answered 400 at once, create no user and leave the
\* invitation unused
C10_ExpiredRefused ==
    /\ (last.kind \in {"register", "validateInvite"} /\ last.stale) =>
          last.status = 400 /\ ~last.createdUser /\ ~last.marked
    /\ \A r \in Reqs : ~Free(r) => ~req[r].stale

C10_Witness ==
    /\ last.kind = "register" /\ last.stale /\ last.wellFormed
    /\ last.status = 400
    /\ \E i \in invitations : ~i.isUsed /\ i.expiresAt < now

\* C11: a validate-invite call changes no stored record and issues no token,
\* and for the token of an unused, unexpired invitation it answers 200 with
\* the email and role of that invitation, however often it is repeated
C11_ValidateReadOnly ==
    [][(last'.kind = "validateInvite" /\ last' # last) =>
          /\ users' = users /\ invitations' = invitations
          /\ projects' = projects /\ tokens' = tokens
          /\ \A i \in invitations :
                (i.token = last'.token /\ ActiveAt(i, now)) =>
                    /\ last'.status = 200
                    /\ last'.email = i.email /\ last'.role = i.role
      ]_vars

C11_Witness ==
    /\ last.kind = "validateInvite" /\ last.status = 200 /\ last.retry
    /\ \E i \in invitations :
          i.token = last.token /\ ~i.isUsed /\ i.email = last.email

\* C12: a register call whose password is shorter than 8 characters is
\* answered 400 "Password must be at least 8 characters" at once and changes
\* no user, invitation or project, so that the token stays redeemable
C12_ShortPasswordRefused ==
    [][/\ (last'.kind = "register" /\ ~last'.wellFormed /\ last' # last) =>
             /\ last'.status = 400
             /\ last'.error = "Password must be at least 8 characters"
             /\ users' = users /\ invitations' = invitations
             /\ projects' = projects
       /\ \A r \in Reqs : req'[r].kind = "register" => req'[r].wellFormed
      ]_vars

C12_Witness ==
    /\ last.kind = "register" /\ last.status = 201 /\ last.retry
    /\ \E i \in invitations : i.token = last.token /\ i.isUsed

\* C13: a login with the right password for a registered account whose
\* isActive is true answers 200 with a token whose verified claims carry the
\* userId, role and organizationId of the stored user
C13_LoginRoundTrip ==
    [][(last'.kind = "login" /\ last' # last /\ last'.correct) =>
          \A u \in GetUserById(last'.subject) :
              u.isActive = "true" =>
                  /\ last'.status = 200
                  /\ VerifyToken(last'.granted, now).userId = u.id
                  /\ VerifyToken(last'.granted, now).role = u.role
                  /\ VerifyToken(last'.granted, now).organizationId = u.organizationId
      ]_vars

\* C14: a login with the right password answers 403 exactly when the stored
\* isActive of the account is false
C14_DisabledOnly ==
    [][(last'.kind = "login" /\ last' # last /\ last'.correct) =>
          \A u \in GetUserById(last'.subject) :
              last'.status = 403 <=> u.isActive = "false"
      ]_vars

\* C15: a refresh with a valid token answers 401 without a token when the
\* user is gone or its stored isActive is false, and otherwise 200 with a
\* token that carries the stored role and organizationId of the user
C15_RefreshCurrent ==
    [][(last'.kind = "refresh" /\ last' # last /\ last'.subject # NoToken.userId) =>
          IF \A u \in GetUserById(last'.subject) : u.isActive = "false"
          THEN last'.status = 401 /\ last'.granted = NoToken
          ELSE \A u \in GetUserById(last'.subject) :
                  /\ last'.status = 200
                  /\ last'.granted.userId = u.id
                  /\ last'.granted.role = u.role
                  /\ last'.granted.organizationId = u.organizationId
      ]_vars

\* C16: a PATCH /projects/{id} of a client that is answered 200 or that changes
\* the project carries exactly status=approved and no other field.
C16_ClientApprovesOnly ==
    [][\A r \in Reqs :
          (/\ req[r].kind = "updateProject"
           /\ req[r].caller.role = "client"
           /\ req'[r].pc = "idle"
           /\ (last'.status = 200 \/ projects' # projects)) =>
             req[r].body = [NoChanges EXCEPT !.status = "approved"]]_vars

\* C17: a POST feedback answered 201 on a project it found pending leaves the
\* project in-review, unless the feedback is an approval written by a client,
\* which leaves it approved; an approval of a developer or an administrator
\* leaves it in-review.
C17_FeedbackMovesStatus ==
    [][\A r \in Reqs :
          (/\ req[r].kind = "createFeedback"
           /\ req[r].before = "pending"
           /\ req'[r].pc = "idle"
           /\ last'.status = 201) =>
             /\ \E p \in projects' : p.id = req[r].projectId
             /\ \A p \in projects' : p.id = req[r].projectId =>
                   p.status = IF req[r].type = "approval" /\ req[r].caller.role = "client"
                              THEN "approved" ELSE "in-review"]_vars

\* the administrator's approval was the first feedback of the project, which
\* is in review
C17_Witness ==
    /\ last.kind = "createFeedback" /\ last.status = 201 /\ last.subject = 0
    /\ \E f \in feedback : /\ feedback = {f}
                           /\ f.type = "approval" /\ f.authorRole = "admin"
                           /\ \E p \in projects : p.id = f.projectId /\ p.status = "in-review"

\* C18: no step moves the status of a project backwards: approved is never
\* followed by in-review or pending, in-review never by pending.
C18_NoWayBack ==
    [][\A p \in projects, p2 \in projects' : p.id = p2.id =>
          /\ p.status = "approved" => p2.status \notin {"in-review", "pending"}
          /\ p.status = "in-review" => p2.status # "pending"]_vars

\* C19: the projects in a 200 of GET /projects or GET /projects/{id} have the
\* organizationId stored on the caller's user document, and list the caller
\* among their assignedClients when the caller is a client.
C19_OwnOrganizationOnly ==
    [][(last' # last /\ last'.kind \in {"listProjects", "getProject"}
                    /\ last'.status = 200) =>
          \A u \in GetUserById(last'.subject), p \in projects :
             p.id \in last'.items =>
               /\ p.organizationId = u.organizationId
               /\ u.role = "client" => u.id \in SeqToSet(p.assignedClients)]_vars

\* C20: GET and POST /projects/{id}/feedback of a client who is not among the
\* assignedClients of the project answer 403 and leave feedback and projects
\* as they were, and GET /feedback returns to a client no feedback of a
\* project the client is not assigned to.
C20_NoFeedbackAccess ==
    [][/\ (last' # last /\ last'.kind \in {"getProjectFeedback", "createFeedback"}) =>
          \A u \in GetUserById(last'.subject), p \in projects :
             (/\ u.role = "client" /\ p.id = last'.project
              /\ p.organizationId = u.organizationId
              /\ u.id \notin SeqToSet(p.assignedClients)) =>
                /\ last'.status = 403
                /\ feedback' = feedback
                /\ projects' = projects
       /\ (last' # last /\ last'.kind = "listFeedback") =>
          \A u \in GetUserById(last'.subject), f \in feedback, p \in projects :
             (u.role = "client" /\ f.id \in last'.items /\ p.id = f.projectId) =>
                u.id \in SeqToSet(p.assignedClients)]_vars

\* Bob, assigned to no project, was refused when he posted feedback on the
\* project that has feedback
C20_Witness ==
    /\ last.kind = "createFeedback" /\ last.status = 403 /\ last.subject = 2
    /\ \E p \in projects : /\ p.id = last.project
                           /\ 2 \notin SeqToSet(p.assignedClients)
                           /\ \E f \in feedback : f.projectId = p.id

\* jwt.verify accepts b at time t: the service's signature, not expired
Live(b, t) == b # NoToken /\ b.key = JWT_SECRET /\ t < b.exp

\* C21: on the endpoints reserved to developers and administrators a caller
\* whose token says client is answered 403 and nothing stored changes, a caller
\* whose token says admin is never answered 403, and the status of a feedback
\* item changes only in a PATCH /feedback of a developer or an administrator.
C21_ReservedEndpoints ==
    [][/\ (/\ last' # last
           /\ last'.kind \in {"createProject", "deleteProject", "assignClients", "invite",
                              "listUsers", "listClients", "listInvitations",
                              "updateFeedback"}
           /\ Live(last'.bearer, now)) =>
          /\ last'.bearer.role = "client" =>
                /\ last'.status = 403
                /\ users' = users /\ invitations' = invitations
                /\ projects' = projects /\ feedback' = feedback
          /\ last'.bearer.role = "admin" => last'.status # 403
       /\ \A f \in feedback, f2 \in feedback' :
             (f.id = f2.id /\ f.status # f2.status) =>
                \E r \in Reqs : /\ req[r].kind = "updateFeedback"
                                /\ req[r].caller.role \in {"developer", "admin"}]_vars

\* Ann, a client, was refused when she tried to resolve a feedback item that
\* is stored and open
C21_Witness ==
    /\ last.kind = "updateFeedback" /\ last.status = 403
    /\ last.bearer.role = "client"
    /\ \E f \in feedback : f.status = "open"

\* C22: a request to a bearer-protected endpoint without a token, with an
\* expired token, with a token of a foreign signature or with something that is
\* no token is answered 401, whatever its body, and nothing stored changes.
C22_BearerRequired ==
    [][(/\ last' # last
        /\ last'.kind \in {"listProjects", "getProject", "createProject", "updateProject",
                           "deleteProject", "assignClients", "listFeedback",
                           "getProjectFeedback", "createFeedback", "updateFeedback",
                           "getStats", "invite", "listUsers", "listClients",
                           "listInvitations", "updateUser", "me", "refresh"}
        /\ ~Live(last'.bearer, now)) =>
          /\ last'.status = 401
          /\ users' = users /\ invitations' = invitations
          /\ projects' = projects /\ feedback' = feedback /\ tokens' = tokens]_vars

\* the administrator's payload under a foreign signature was refused the
\* deletion of the project, which is still stored
C22_Witness ==
    /\ last.kind = "deleteProject" /\ last.status = 401
    /\ last.bearer.role = "admin" /\ last.bearer.key # JWT_SECRET
    /\ \E p \in projects : p.id = last.project

\* C23: a stored user changes only through a PATCH /users that names it; its
\* email, passwordHash, organizationId and assignedProjects never change, its
\* role and isActive change only when the caller's token says admin, and its
\* name only when the caller is that user or an admin; no user disappears.
C23_UpdateUserRules ==
    [][/\ \A u \in users : \E v \in users' : v.id = u.id
       /\ \A u \in users, v \in users' :
             (u.id = v.id /\ u # v) =>
                /\ v.email = u.email /\ v.passwordHash = u.passwordHash
                /\ v.organizationId = u.organizationId
                /\ v.assignedProjects = u.assignedProjects
                /\ \E r \in Reqs :
                      /\ req[r].kind = "updateUser" /\ req[r].user.id = u.id
                      /\ (v.role # u.role \/ v.isActive # u.isActive) =>
                            req[r].caller.role = "admin"
                      /\ v.name # u.name =>
                            (req[r].caller.role = "admin" \/ req[r].caller.userId = u.id)]_vars

\* Ann sent name, role and isActive for her own account: she has the new name
\* and is still an active client
C23_Witness ==
    /\ last.kind = "updateUser" /\ last.status = 200
    /\ last.bearer.role = "client" /\ last.bearer.userId = 1
    /\ \E u \in users : /\ u.id = 1 /\ u.name = "Zed"
                         /\ u.role = "client" /\ u.isActive = "true"

\* C25: no response, of login, register, me, refresh, list users, list clients
\* or update user, successful or not, holds the passwordHash of a user.
C25_NoPasswordHash == "passwordHash" \notin last.userFields

\* the administrator listed the users, Bob among them, and was sent their
\* emails and roles
C25_Witness ==
    /\ last.kind = "listUsers" /\ last.status = 200
    /\ 2 \in last.items
    /\ {"email", "role"} \subseteq last.userFields

\* C26: an invitation that was created is answered 201 and stored, and the
\* emailSent flag of the answer is true exactly when the message was
\* dispatched.
C26_EmailSentIsDispatch ==
    [][(last' # last /\ last'.kind = "invite" /\ last'.status = 201) =>
          /\ \E i \in invitations' \ invitations : ~i.isUsed
          /\ last'.emailSent <=> last'.delivered]_vars

\* C27: the invitations in a 200 of GET /users/invitations, and those counted
\* in pendingInvitations by GET /stats, are unused and not past their expiresAt
\* when the request is answered.
C27_PendingAreUnexpired ==
    [][(last' # last /\ last'.kind \in {"listInvitations", "getStats"}
                    /\ last'.status = 200) =>
          \A i \in invitations : i.id \in last'.items => ActiveAt(i, now)]_vars

\* C29: a project that POST /projects stores is pending whatever status the
\* body names, and its url is the url of the body when that starts with a
\* scheme and "https://" followed by the url of the body when it does not; the
\* request is refused with 400, and nothing is stored, exactly when that url
\* is not well formed.
C29_CreatedProject ==
    [][(last' # last /\ last'.kind = "createProject"
                    /\ last'.status \in {201, 400} /\ last'.url # <<>>) =>
          LET given == last'.url
              hasScheme == given[1] \in {"https://", "http://", "ftp://"}
              expected == IF hasScheme THEN given ELSE <<"https://">> \o given
          IN  IF UrlParses(expected)
              THEN /\ last'.status = 201
                   /\ \E p \in projects' \ projects :
                         /\ p.id = last'.project /\ p.status = "pending"
                         /\ p.url = expected
              ELSE last'.status = 400 /\ projects' = projects]_vars

\* C30: a deployment without a signing secret issues no token, and no token
\* that login, register or refresh answers with, or that a client holds, is
\* signed with the default key.
C30_FailsClosed ==
    /\ (envSecret = Undefined /\ last.kind \in {"login", "register", "refresh"}) =>
          last.granted = NoToken
    /\ last.granted # NoToken => last.granted.key # DefaultSecret
    /\ \A tok \in tokens : tok.key # DefaultSecret

\* C28: a replace of a project stores the record its writer merged from the
\* copy it fetched, whatever another request has stored since that fetch, so
\* the change of the earlier of two concurrent writers can be lost; the replace
\* touches no other project and no user, invitation or feedback item.
C28_LastReplaceWins ==
    [][\A r \in Reqs :
          (req[r].pc \in {"regProjReplace", "assignReplace", "patchReplace"}
             /\ req'[r] # req[r]) =>
             LET q == req[r]
                 written == IF q.pc = "regProjReplace"
                            THEN [q.proj EXCEPT !.assignedClients = q.clients]
                            ELSE MergeProject(q.proj, q.changes)
             IN  /\ \A p \in projects' : p.id = written.id => p = written
                 /\ \A p \in projects' : p.id # written.id => p \in projects
                 /\ \A p \in projects : p.id # written.id => p \in projects'
                 /\ users' = users /\ invitations' = invitations
                 /\ feedback' = feedback]_vars

\* Bob's registration was answered 201, so project 1 was stored with him
\* among its clients; the PATCH of the status that had fetched the project
\* before replaced it afterwards, and the approved project names Ann alone,
\* as no assignment (they all name no client) ever asked
C28_Witness ==
    /\ last.kind = "register" /\ last.status = 201 /\ last.backfilled
    /\ \A r \in Reqs : req[r].pc = "idle"
    /\ \E u \in users : u.id = 2 /\ u.assignedProjects = <<1>>
    /\ \E p \in projects :
          p.id = 1 /\ p.status = "approved" /\ p.assignedClients = <<1>>

\* C24: a PATCH /users that names a user outside the organization of the
\* caller's token, and a PATCH /feedback that names a feedback item whose
\* project is outside it, are answered 404 and change nothing stored.
C24_OtherOrganizationIsNotFound ==
    [][(last' # last /\ last'.bearer # NoToken /\ last'.status # 401) =>
          LET org == OrgOrDefault(last'.bearer.organizationId)
              foreign ==
                 \/ /\ last'.kind = "updateUser"
                    /\ \E u \in users : u.id = last'.target /\ u.organizationId # org
                 \/ /\ last'.kind = "updateFeedback"
                    /\ \E f \in feedback, p \in projects :
                          /\ f.id = last'.target /\ p.id = f.projectId
                          /\ p.organizationId # org
          IN  foreign => /\ last'.status = 404
                         /\ users' = users /\ feedback' = feedback]_vars

\* C31: a response with status 500 holds the generic message and nothing
\* else about the error that was caught: no exception message, no stack.
C31_GenericFailure ==
    last.status = 500 => (last.error = "Internal server error" /\ last.details = {})

\* C38: no response says anything of the token-signing secret: not a part of
\* it, not its length.
C38_SecretStaysSecret == last.secretParts = {}

\* C32: no step of a createFeedback request moves a project from approved
\* back to in-review.
C32_ApprovedStays ==
    [][\A p \in projects, p2 \in projects' :
          (p.id = p2.id /\ p.status = "approved" /\ p2.status = "in-review") =>
             ~\E r \in Reqs : req[r].kind = "createFeedback" /\ req'[r] # req[r]]_vars

\* C35: no step of a request of a client (a POST feedback or a PATCH of the
\* project) changes the status of a project whose stored status is archived.
C35_ArchivedIsFinal ==
    [][\A r \in Reqs :
          (/\ req[r].kind \in {"createFeedback", "updateProject"}
           /\ req[r].caller # NoToken
           /\ req[r].caller.role = "client"
           /\ req'[r] # req[r]) =>
             \A p \in projects, p2 \in projects' :
                (p.id = p2.id /\ p.status = "archived") => p2.status = "archived"]_vars

\* C33: once the stored user of a token is inactive, a request bearing the
\* token is not answered with success; once the stored role is neither
\* developer nor admin, a request bearing the token that creates, deletes or
\* assigns a project or invites a user is answered 403.
C33_OldTokensLosePrivileges ==
    [][(last' # last /\ Live(last'.bearer, now)) =>
          \A u \in GetUserById(last'.bearer.userId) :
             /\ u.isActive = "false" => last'.status \notin {200, 201}
             /\ (/\ u.role \notin {"developer", "admin"}
                 /\ last'.kind \in {"createProject", "deleteProject", "assignClients",
                                    "invite"}) => last'.status = 403]_vars

\* C34: the step of a register that writes the invitations marks the
\* invitation of the request's token, which keeps its other fields, and leaves
\* the other invitations as they were.
C34_MarksItsInvitation ==
    [][\A r \in Reqs :
          (/\ req[r].kind = "register"
           /\ req'[r] # req[r]
           /\ invitations' # invitations) =>
             \E i \in invitations :
                /\ i.token = req[r].inv.token
                /\ invitations' = (invitations \ {i}) \cup {MarkedUsed(i, now)}]_vars

\* C37: at every instant the duplicate check of POST /users/invite takes an
\* unused invitation for active exactly when register and validate-invite take
\* it for unexpired, and no invitation was created for an email while an older
\* unused one for that email was not yet expired.
C37_ChecksAgree ==
    /\ \A i \in invitations :
          ~i.isUsed => (InvitationIsActive(i, now) <=> ~IsExpired(i, now))
    /\ \A i, j \in invitations :
          (/\ i.email = j.email /\ i.id < j.id
           /\ ~i.isUsed) => IsExpired(i, j.createdAt)

\* C36: when no request is in flight, a project id is in the assignedProjects
\* of a client exactly when a project of that id is stored and lists the
\* client among its assignedClients.
C36_AssignmentAgrees ==
    (\A r \in Reqs : req[r].pc = "idle") =>
       \A u \in users : u.role = "client" =>
          \A p \in 1..MaxProjects :
             (p \in SeqToSet(u.assignedProjects)) <=>
                (\E project \in projects :
                    project.id = p /\ u.id \in SeqToSet(project.assignedClients))

====
